---- MODULE Spec2Model ----
(***************************************************************************)
(* Model of the student-profile session state machine of the registration  *)
(* assistant: the StudentProfile entity (student_profile.py), its database *)
(* persistence (db_student_profile.py, db_user_account.py, database.py)    *)
(* and the HTTP handlers that drive it (main.py).                          *)
(*                                                                         *)
(* The state is the two database tables. A handler is an operator that    *)
(* gives, for a request in the current state, the tables it leaves and the *)
(* reply it returns; its action applies it. created_at, updated_at,        *)
(* last_login and completed_steps are written but never read by a handler  *)
(* and are left out.                                                       *)
(*                                                                         *)
(* Python values are modelled as strings so that every comparison is       *)
(* between values of one type: None, True and False are the strings below, *)
(* and a JSON request may carry any of them, or another string.            *)
(***************************************************************************)
EXTENDS Integers, Sequences, FiniteSets, Bags, TLC

VARIABLES
    student_profiles,   \* table student_profiles: session_id -> row
    user_accounts,      \* table user_accounts: its rows, in order of id
    in_flight,          \* requests that loaded a profile and await their body
    FIELD_DETECTION     \* field_detection.FIELD_DETECTION: field name -> entry

vars == <<student_profiles, user_accounts, in_flight, FIELD_DETECTION>>

---------------------------------------------------------------------------
(* Python values *)

PyNone == "None"
PyTrue == "True"
PyFalse == "False"
\* The integer 0, distinct from the string "0".
PyZero == "0 (int)"

\* Python truthiness (`if x`, `not x`, `x or y`) of the values used here.
Truthy(v) == v \notin {PyNone, PyFalse, PyZero, ""}

---------------------------------------------------------------------------
(* Bounds of the model *)

\* Largest number of keys one fact-update request carries.
MaxUpdateKeys == 1

\* Largest number of keys one form_data mapping of a request carries.
MaxFormKeys == 1

---------------------------------------------------------------------------
(* StudentProfile *)

CollecteInfo == "collecte_info"
RemplissageFormulaire == "remplissage_formulaire"

FactNames ==
    {"inscription_type", "is_boursier", "is_mineur",
     "inscrit_autre_etablissement", "has_jdc"}

BoolFactNames == FactNames \ {"inscription_type"}

\* The four kinds calculate_required_documents branches on, and one declared
\* InscriptionType value that it does not branch on.
HandledKinds == {"premiere_inscription", "lap", "master", "prep_concours"}
DeclaredKinds == HandledKinds \cup {"reinscription"}

DocPhoto ==
    "Photo d'identité (35x45mm, JPG) avec nom, prénom et année d'inscription au verso"
DocIdentite == "Photocopie recto-verso pièce d'identité"
DocResponsabiliteCivile ==
    "Attestation responsabilité civile (année universitaire en cours)"
DocCVEC == "Attestation CVEC (acquittement ou exonération)"
DocDiplome ==
    "Photocopie diplôme ou relevé notes baccalauréat (si obtenu en 2025)"
DocDroitImage == "Formulaire cession droit à l'image"
DocJDC == "Attestation JDC ou attestation d'exemption"
DocAutorisationInscription == "Autorisation d'inscription"
DocCarteEtudiante == "Carte étudiante de l'année précédente"
DocAutorisationParentale == "Autorisation parentale"
DocCROUS ==
    "Attestation CROUS portant la mention « boursier » pour l'année universitaire en cours"
DocBulletinVersement ==
    "Copie du bulletin de versement des droits universitaires"

\* StudentProfile.__init__: the fresh in-memory profile.
NewProfile ==
    [phase |-> CollecteInfo,
     inscription_type |-> PyNone,
     is_boursier |-> PyNone,
     is_mineur |-> PyNone,
     inscrit_autre_etablissement |-> PyNone,
     has_jdc |-> PyNone,
     required_documents |-> <<>>,
     form_data |-> <<>>,
     form_completed |-> PyFalse,
     current_step |-> "start"]

\* `documents.append(d)` under `if cond`.
AppendIf(cond, docs) == IF cond THEN docs ELSE <<>>

\* "Documents communs à tous": the baseline every list starts with.
CommonDocuments ==
    <<DocPhoto, DocIdentite, DocResponsabiliteCivile, DocCVEC>>

\* Variant of KindDocuments: the first-enrollment branch appends the
\* image-rights form before the diploma proof.
KindDocuments_ImageFirst(p) ==
    IF p.inscription_type = "premiere_inscription" THEN
        <<DocDroitImage, DocDiplome>>
        \o AppendIf(~Truthy(p.has_jdc), <<DocJDC>>)
    ELSE IF p.inscription_type \in {"lap", "master", "prep_concours"} THEN
        <<DocAutorisationInscription, DocCarteEtudiante>>
        \o AppendIf(Truthy(p.is_mineur), <<DocAutorisationParentale>>)
        \o AppendIf(~Truthy(p.has_jdc), <<DocJDC>>)
    ELSE <<>>

\* Variant of KindDocuments: the prep_concours branch forgets the JDC test.
KindDocuments_PrepWithoutJdc(p) ==
    IF p.inscription_type = "premiere_inscription" THEN
        <<DocDiplome, DocDroitImage>>
        \o AppendIf(~Truthy(p.has_jdc), <<DocJDC>>)
    ELSE IF p.inscription_type \in {"lap", "master"} THEN
        <<DocAutorisationInscription, DocCarteEtudiante>>
        \o AppendIf(Truthy(p.is_mineur), <<DocAutorisationParentale>>)
        \o AppendIf(~Truthy(p.has_jdc), <<DocJDC>>)
    ELSE IF p.inscription_type = "prep_concours" THEN
        <<DocAutorisationInscription, DocCarteEtudiante>>
        \o AppendIf(Truthy(p.is_mineur), <<DocAutorisationParentale>>)
    ELSE <<>>

\* Variant of KindDocuments: the prep_concours branch asks for one document
\* fewer (no prior-year student card).
KindDocuments_PrepReduced(p) ==
    IF p.inscription_type = "premiere_inscription" THEN
        <<DocDiplome, DocDroitImage>>
        \o AppendIf(~Truthy(p.has_jdc), <<DocJDC>>)
    ELSE IF p.inscription_type \in {"lap", "master"} THEN
        <<DocAutorisationInscription, DocCarteEtudiante>>
        \o AppendIf(Truthy(p.is_mineur), <<DocAutorisationParentale>>)
        \o AppendIf(~Truthy(p.has_jdc), <<DocJDC>>)
    ELSE IF p.inscription_type = "prep_concours" THEN
        <<DocAutorisationInscription>>
        \o AppendIf(Truthy(p.is_mineur), <<DocAutorisationParentale>>)
        \o AppendIf(~Truthy(p.has_jdc), <<DocJDC>>)
    ELSE <<>>

\* Variant of KindDocuments: the last branch is an `else:` for every kind
\* that is set, in place of `elif ... == "prep_concours"`.
KindDocuments_ElseReEnrollment(p) ==
    IF p.inscription_type = "premiere_inscription" THEN
        <<DocDiplome, DocDroitImage>>
        \o AppendIf(~Truthy(p.has_jdc), <<DocJDC>>)
    ELSE IF p.inscription_type \in {"lap", "master"} THEN
        <<DocAutorisationInscription, DocCarteEtudiante>>
        \o AppendIf(Truthy(p.is_mineur), <<DocAutorisationParentale>>)
        \o AppendIf(~Truthy(p.has_jdc), <<DocJDC>>)
    ELSE IF p.inscription_type # PyNone THEN
        <<DocAutorisationInscription, DocCarteEtudiante>>
        \o AppendIf(Truthy(p.is_mineur), <<DocAutorisationParentale>>)
        \o AppendIf(~Truthy(p.has_jdc), <<DocJDC>>)
    ELSE <<>>

\* The if / elif chain on self.inscription_type.
KindDocuments(p) ==
    IF p.inscription_type = "premiere_inscription" THEN
        <<DocDiplome, DocDroitImage>>
        \o AppendIf(~Truthy(p.has_jdc), <<DocJDC>>)
    ELSE IF p.inscription_type \in {"lap", "master"} THEN
        <<DocAutorisationInscription, DocCarteEtudiante>>
        \o AppendIf(Truthy(p.is_mineur), <<DocAutorisationParentale>>)
        \o AppendIf(~Truthy(p.has_jdc), <<DocJDC>>)
    ELSE IF p.inscription_type = "prep_concours" THEN
        <<DocAutorisationInscription, DocCarteEtudiante>>
        \o AppendIf(Truthy(p.is_mineur), <<DocAutorisationParentale>>)
        \o AppendIf(~Truthy(p.has_jdc), <<DocJDC>>)
    ELSE <<>>

\* Variant of ConditionalDocuments: the two tests sit inside the branches on
\* the enrollment kind, so a profile of no handled kind gets neither.
ConditionalDocuments_HandledKindsOnly(p) ==
    IF p.inscription_type \in HandledKinds
    THEN AppendIf(Truthy(p.is_boursier), <<DocCROUS>>)
         \o AppendIf(Truthy(p.inscrit_autre_etablissement),
                     <<DocBulletinVersement>>)
    ELSE <<>>

\* "Documents conditionnels (pour tous)".
ConditionalDocuments(p) ==
    AppendIf(Truthy(p.is_boursier), <<DocCROUS>>)
    \o AppendIf(Truthy(p.inscrit_autre_etablissement), <<DocBulletinVersement>>)

\* Variant of BuildDocuments: the conditional documents are appended before
\* the branch on the enrollment kind.
BuildDocuments_ConditionalFirst(p) ==
    CommonDocuments \o ConditionalDocuments(p) \o KindDocuments(p)

\* The list calculate_required_documents builds from the facts of p.
BuildDocuments(p) ==
    CommonDocuments \o KindDocuments(p) \o ConditionalDocuments(p)

\* Variant of calculate_required_documents: has_jdc is recorded as False
\* when the JDC attestation is put on the list.
calculate_required_documents_RecordingJdc(p) ==
    LET documents == BuildDocuments(p)
    IN  [profile |->
             [p EXCEPT !.required_documents = documents,
                       !.has_jdc = IF \E i \in DOMAIN documents :
                                         documents[i] = DocJDC
                                   THEN PyFalse ELSE @],
         result |-> documents]

\* Variant of calculate_required_documents: `documents` starts as
\* self.required_documents instead of a fresh list.
calculate_required_documents_Appending(p) ==
    LET documents == p.required_documents \o BuildDocuments(p)
    IN  [profile |-> [p EXCEPT !.required_documents = documents],
         result |-> documents]

\* StudentProfile.calculate_required_documents: a fresh list replaces
\* self.required_documents and is returned.
calculate_required_documents(p) ==
    LET documents == BuildDocuments(p)
    IN  [profile |-> [p EXCEPT !.required_documents = documents],
         result |-> documents]

\* Variant of is_phase1_complete: is_boursier is tested for truth instead of
\* `is not None`.
is_phase1_complete_Truthiness(p) ==
    /\ p.inscription_type # PyNone
    /\ Truthy(p.is_boursier)
    /\ p.is_mineur # PyNone
    /\ p.inscrit_autre_etablissement # PyNone
    /\ p.has_jdc # PyNone

\* StudentProfile.is_phase1_complete
is_phase1_complete(p) ==
    /\ p.inscription_type # PyNone
    /\ p.is_boursier # PyNone
    /\ p.is_mineur # PyNone
    /\ p.inscrit_autre_etablissement # PyNone
    /\ p.has_jdc # PyNone

\* StudentProfile.move_to_phase2
move_to_phase2(p) ==
    IF is_phase1_complete(p)
    THEN [profile |-> [p EXCEPT !.phase = RemplissageFormulaire,
                                !.current_step = "personal_info"],
          result |-> TRUE]
    ELSE [profile |-> p, result |-> FALSE]

---------------------------------------------------------------------------
(* Form catalog and completeness check (form_sections.py) *)

\* The 24 sections: `single` tells a section declared with "field" from one
\* declared with "fields"; `required` of a field is field_info.get("required",
\* True), and is not read for a single-field section.
FORM_SECTIONS ==
    <<
    [number |-> 1, required |-> TRUE, single |-> TRUE,
     fields |->
         <<[name |-> "type_inscription", required |-> TRUE]>>],
    [number |-> 2, required |-> TRUE, single |-> FALSE,
     fields |->
         <<[name |-> "nom_naissance", required |-> TRUE],
           [name |-> "nom_usuel", required |-> FALSE],
           [name |-> "prenom_1", required |-> TRUE],
           [name |-> "prenom_2", required |-> FALSE],
           [name |-> "prenom_3", required |-> FALSE],
           [name |-> "numero_etudiant", required |-> FALSE],
           [name |-> "numero_ines", required |-> TRUE]>>],
    [number |-> 3, required |-> TRUE, single |-> FALSE,
     fields |->
         <<[name |-> "date_naissance", required |-> TRUE],
           [name |-> "sexe", required |-> TRUE]>>],
    [number |-> 4, required |-> TRUE, single |-> FALSE,
     fields |->
         <<[name |-> "ville_naissance", required |-> TRUE],
           [name |-> "arrondissement", required |-> FALSE],
           [name |-> "departement_naissance", required |-> TRUE],
           [name |-> "pays_naissance", required |-> TRUE]>>],
    [number |-> 5, required |-> TRUE, single |-> FALSE,
     fields |->
         <<[name |-> "nationalite", required |-> TRUE],
           [name |-> "refugie_politique", required |-> FALSE]>>],
    [number |-> 6, required |-> TRUE, single |-> TRUE,
     fields |->
         <<[name |-> "situation_familiale", required |-> TRUE]>>],
    [number |-> 7, required |-> FALSE, single |-> TRUE,
     fields |->
         <<[name |-> "handicap", required |-> TRUE]>>],
    [number |-> 8, required |-> TRUE, single |-> TRUE,
     fields |->
         <<[name |-> "situation_militaire", required |-> TRUE]>>],
    [number |-> 9, required |-> TRUE, single |-> FALSE,
     fields |->
         <<[name |-> "premiere_inscription_sup_annee", required |-> FALSE],
           [name |-> "premiere_inscription_universite_annee", required |-> FALSE],
           [name |-> "premiere_inscription_universite_etablissement", required |-> FALSE]>>],
    [number |-> 10, required |-> TRUE, single |-> FALSE,
     fields |->
         <<[name |-> "bac_annee", required |-> TRUE],
           [name |-> "bac_serie", required |-> TRUE],
           [name |-> "bac_mention", required |-> FALSE],
           [name |-> "bac_specialite_1_terminale", required |-> FALSE],
           [name |-> "bac_specialite_2_terminale", required |-> FALSE],
           [name |-> "bac_specialite_premiere_abandonnee", required |-> FALSE],
           [name |-> "bac_type_etablissement", required |-> TRUE],
           [name |-> "bac_nom_etablissement", required |-> TRUE],
           [name |-> "bac_ville", required |-> TRUE],
           [name |-> "bac_departement", required |-> TRUE]>>],
    [number |-> 11, required |-> TRUE, single |-> FALSE,
     fields |->
         <<[name |-> "adresse_complete", required |-> TRUE],
           [name |-> "code_postal", required |-> TRUE],
           [name |-> "ville", required |-> TRUE],
           [name |-> "type_hebergement", required |-> TRUE]>>],
    [number |-> 12, required |-> TRUE, single |-> FALSE,
     fields |->
         <<[name |-> "csp_etudiant_code", required |-> TRUE],
           [name |-> "csp_etudiant_activite", required |-> TRUE],
           [name |-> "csp_etudiant_quotite", required |-> TRUE]>>],
    [number |-> 13, required |-> TRUE, single |-> FALSE,
     fields |->
         <<[name |-> "csp_parent_1", required |-> TRUE],
           [name |-> "csp_parent_2", required |-> TRUE]>>],
    [number |-> 14, required |-> FALSE, single |-> TRUE,
     fields |->
         <<[name |-> "sportif_haut_niveau", required |-> TRUE]>>],
    [number |-> 15, required |-> FALSE, single |-> TRUE,
     fields |->
         <<[name |-> "aides_financieres", required |-> TRUE]>>],
    [number |-> 16, required |-> TRUE, single |-> FALSE,
     fields |->
         <<[name |-> "echanges_internationaux", required |-> TRUE],
           [name |-> "echanges_type", required |-> FALSE],
           [name |-> "echanges_programme", required |-> FALSE],
           [name |-> "echanges_etablissement_etranger", required |-> FALSE],
           [name |-> "echanges_pays", required |-> FALSE]>>],
    [number |-> 17, required |-> TRUE, single |-> FALSE,
     fields |->
         <<[name |-> "dernier_etablissement_annee", required |-> TRUE],
           [name |-> "dernier_etablissement_francais_nom", required |-> FALSE],
           [name |-> "dernier_etablissement_francais_departement", required |-> FALSE],
           [name |-> "dernier_etablissement_etranger_nom", required |-> FALSE],
           [name |-> "dernier_etablissement_etranger_pays", required |-> FALSE]>>],
    [number |-> 18, required |-> TRUE, single |-> FALSE,
     fields |->
         <<[name |-> "situation_2025_2026_type", required |-> TRUE],
           [name |-> "situation_etablissement_francais_nom", required |-> FALSE],
           [name |-> "situation_etablissement_francais_departement", required |-> FALSE],
           [name |-> "situation_etablissement_etranger_nom", required |-> FALSE],
           [name |-> "situation_etablissement_etranger_pays", required |-> FALSE]>>],
    [number |-> 19, required |-> TRUE, single |-> FALSE,
     fields |->
         <<[name |-> "dernier_diplome_code", required |-> TRUE],
           [name |-> "dernier_diplome_libelle", required |-> TRUE],
           [name |-> "dernier_diplome_annee", required |-> TRUE],
           [name |-> "dernier_diplome_etablissement", required |-> TRUE],
           [name |-> "dernier_diplome_departement", required |-> FALSE],
           [name |-> "dernier_diplome_pays", required |-> FALSE]>>],
    [number |-> 20, required |-> TRUE, single |-> FALSE,
     fields |->
         <<[name |-> "inscrit_autre_etablissement", required |-> TRUE],
           [name |-> "autre_etablissement_nom", required |-> FALSE],
           [name |-> "autre_etablissement_ville", required |-> FALSE]>>],
    [number |-> 21, required |-> TRUE, single |-> FALSE,
     fields |->
         <<[name |-> "diplome_postule_intitule", required |-> TRUE],
           [name |-> "diplome_postule_specialite", required |-> TRUE],
           [name |-> "diplome_postule_finalite", required |-> TRUE],
           [name |-> "diplome_postule_parcours", required |-> TRUE],
           [name |-> "diplome_postule_niveau", required |-> TRUE],
           [name |-> "diplome_postule_code_etape", required |-> FALSE],
           [name |-> "diplome_postule_lieu", required |-> FALSE],
           [name |-> "diplome_postule_nb_inscriptions_cycle", required |-> TRUE],
           [name |-> "diplome_postule_nb_inscriptions_diplome", required |-> TRUE],
           [name |-> "diplome_postule_nb_inscriptions_niveau", required |-> TRUE],
           [name |-> "diplome_postule_code_cpge", required |-> FALSE],
           [name |-> "diplome_postule_cesure", required |-> FALSE],
           [name |-> "diplome_postule_enseignement_distance", required |-> TRUE],
           [name |-> "diplome_postule_enseignement_distance_lieu", required |-> FALSE],
           [name |-> "diplome_postule_bourses", required |-> FALSE],
           [name |-> "diplome_postule_these_cotutelle", required |-> FALSE]>>],
    [number |-> 22, required |-> FALSE, single |-> FALSE,
     fields |->
         <<[name |-> "autre_diplome_postule_intitule", required |-> FALSE],
           [name |-> "autre_diplome_postule_etape", required |-> FALSE],
           [name |-> "autre_diplome_postule_code_etape", required |-> FALSE],
           [name |-> "autre_diplome_postule_lieu", required |-> FALSE],
           [name |-> "autre_diplome_postule_nb_inscriptions_cycle", required |-> FALSE],
           [name |-> "autre_diplome_postule_nb_inscriptions_diplome", required |-> FALSE],
           [name |-> "autre_diplome_postule_nb_inscriptions_niveau", required |-> FALSE],
           [name |-> "autre_diplome_postule_enseignement_distance", required |-> FALSE],
           [name |-> "autre_diplome_postule_enseignement_distance_lieu", required |-> FALSE]>>],
    [number |-> 23, required |-> TRUE, single |-> FALSE,
     fields |->
         <<[name |-> "pupilles_nation", required |-> TRUE],
           [name |-> "assurance_responsabilite_civile", required |-> TRUE],
           [name |-> "assurance_organisme", required |-> FALSE],
           [name |-> "etudiant_mineur", required |-> TRUE]>>],
    [number |-> 24, required |-> TRUE, single |-> FALSE,
     fields |->
         <<[name |-> "certification_exactitude", required |-> TRUE],
           [name |-> "certification_charte", required |-> TRUE],
           [name |-> "signature_date", required |-> TRUE],
           [name |-> "signature_lieu", required |-> TRUE]>>]
    >>

\* Variant of FieldMissing: `field not in form_data` alone.
FieldMissing_AbsentOnly(form_data, field) == field \notin DOMAIN form_data

\* `field not in form_data or not form_data.get(field)`
FieldMissing(form_data, field) ==
    field \notin DOMAIN form_data \/ ~Truthy(form_data[field])

\* Variant of SectionMissingFields: field_info "required" is not read, so
\* every field of a multi-field section is collected when missing.
SectionMissingFields_EveryField(section, form_data) ==
    LET wanted ==
            SelectSeq(section.fields,
                      LAMBDA fi : FieldMissing(form_data, fi.name))
    IN  [i \in 1..Len(wanted) |-> wanted[i].name]

\* Variant of SectionMissingFields: only the `"fields" in section` branch,
\* so a single-field section collects nothing.
SectionMissingFields_MultiOnly(section, form_data) ==
    LET wanted ==
            SelectSeq(section.fields,
                      LAMBDA fi : /\ ~section.single
                                  /\ fi.required
                                  /\ FieldMissing(form_data, fi.name))
    IN  [i \in 1..Len(wanted) |-> wanted[i].name]

\* The missing_fields list get_missing_sections collects for one section.
SectionMissingFields(section, form_data) ==
    LET wanted ==
            SelectSeq(section.fields,
                      LAMBDA fi : /\ (section.single \/ fi.required)
                                  /\ FieldMissing(form_data, fi.name))
    IN  [i \in 1..Len(wanted) |-> wanted[i].name]

\* get_missing_sections: the required sections with a missing field, in
\* catalog order, each with its missing_fields.
get_missing_sections(form_data) ==
    LET checked ==
            [i \in 1..Len(FORM_SECTIONS) |->
                [number |-> FORM_SECTIONS[i].number,
                 required |-> FORM_SECTIONS[i].required,
                 missing_fields |->
                     SectionMissingFields(FORM_SECTIONS[i], form_data)]]
        missing ==
            SelectSeq(checked,
                      LAMBDA s : s.required /\ s.missing_fields # <<>>)
    IN  [i \in 1..Len(missing) |->
            [number |-> missing[i].number,
             missing_fields |-> missing[i].missing_fields]]

\* is_form_complete
is_form_complete(form_data) == Len(get_missing_sections(form_data)) = 0

\* The names one section adds to the list of get_all_required_fields.
SectionRequiredFields(section) ==
    IF ~section.required THEN <<>>
    ELSE LET wanted ==
                 SelectSeq(section.fields,
                           LAMBDA fi : section.single \/ fi.required)
         IN  [i \in 1..Len(wanted) |-> wanted[i].name]

\* The loop of get_all_required_fields over the sections from the i-th on.
RECURSIVE RequiredFieldsFrom(_)
RequiredFieldsFrom(i) ==
    IF i > Len(FORM_SECTIONS) THEN <<>>
    ELSE SectionRequiredFields(FORM_SECTIONS[i]) \o RequiredFieldsFrom(i + 1)

\* Variant of get_all_required_fields: the field whose condition is
\* "Réinscription uniquement" is required of the re-enrollment kinds.
get_all_required_fields_Conditional(inscription_type) ==
    RequiredFieldsFrom(1)
    \o (IF inscription_type \in {"lap", "master", "prep_concours", "reinscription"}
        THEN <<"numero_etudiant">> ELSE <<>>)

\* get_all_required_fields: inscription_type is accepted and not read.
get_all_required_fields(inscription_type) == RequiredFieldsFrom(1)

\* The loop of get_missing_fields that extends one list with the
\* missing_fields of every section.
RECURSIVE FlattenMissing(_)
FlattenMissing(missing) ==
    IF missing = <<>> THEN <<>>
    ELSE Head(missing).missing_fields \o FlattenMissing(Tail(missing))

---------------------------------------------------------------------------
(* Persistence (database.py, db_student_profile.py, db_user_account.py) *)

ProfileFields == DOMAIN NewProfile

\* DBProfileManager._db_to_profile: the in-memory profile of a row.
db_to_profile(row) == [f \in ProfileFields |-> row[f]]

\* StudentProfile.to_dict, as returned in a reply.
to_dict(p) ==
    [f \in ProfileFields \cup {"is_phase1_complete"} |->
        IF f = "is_phase1_complete"
        THEN (IF is_phase1_complete(p) THEN PyTrue ELSE PyFalse)
        ELSE p[f]]

\* What the columns of student_profiles accept at commit: the Boolean
\* columns take None, True or False only, and phase is not nullable.
Storable(p) ==
    /\ \A f \in BoolFactNames : p[f] \in {PyNone, PyTrue, PyFalse}
    /\ p.form_completed \in {PyNone, PyTrue, PyFalse}
    /\ p.phase # PyNone

\* Variant of NewRow: the row is created with the form-completed flag unset
\* and with the documents common to every kind.
NewRow_Prefilled(account_id) ==
    [f \in ProfileFields \cup {"account_id"} |->
        IF f = "account_id" THEN account_id
        ELSE IF f = "form_completed" THEN PyNone
        ELSE IF f = "required_documents" THEN CommonDocuments
        ELSE NewProfile[f]]

\* DBProfileManager.create_profile, after its existence check.
NewRow(account_id) ==
    [f \in ProfileFields \cup {"account_id"} |->
        IF f = "account_id" THEN account_id ELSE NewProfile[f]]

\* The row save_profile writes for profile p: every profile column is
\* overwritten, account_id is left as it was (None for a new row).
SavedRow(table, sid, p) ==
    [f \in ProfileFields \cup {"account_id"} |->
        IF f = "account_id"
        THEN (IF sid \in DOMAIN table THEN table[sid].account_id ELSE PyNone)
        ELSE p[f]]

\* Python dict with key k set to v.
Put(d, k, v) == [x \in DOMAIN d \cup {k} |-> IF x = k THEN v ELSE d[x]]

\* Variant of save_profile: the query has no filter_by(session_id=...), every
\* row of the table is written.
save_profile_EveryRow(table, sid, p) ==
    IF Storable(p)
    THEN [table |-> [x \in DOMAIN table \cup {sid} |-> SavedRow(table, x, p)],
          result |-> TRUE]
    ELSE [table |-> table, result |-> FALSE]

\* DBProfileManager.save_profile: the table after the call and the returned
\* flag; a commit that raises is rolled back and reported as False.
save_profile(table, sid, p) ==
    IF Storable(p)
    THEN [table |-> Put(table, sid, SavedRow(table, sid, p)), result |-> TRUE]
    ELSE [table |-> table, result |-> FALSE]

\* dict.update
DictUpdate(d, u) ==
    [x \in DOMAIN d \cup DOMAIN u |-> IF x \in DOMAIN u THEN u[x] ELSE d[x]]

\* dict.get(key, default)
DictGet(d, k, default) == IF k \in DOMAIN d THEN d[k] ELSE default

---------------------------------------------------------------------------
(* Requests: the inputs the handlers are driven with *)

\* A key that a JSON request object does not carry.
Absent == "<absent>"

\* Session ids uuid4 may return, and one that is never created.
SessionIds == {"s1"}
UnknownSessionId == "s-inconnue"
RequestSessionIds == SessionIds \cup {UnknownSessionId}

Emails == {"a@amu.fr"}
UnknownEmail == "x@amu.fr"
RequestEmails == Emails \cup {UnknownEmail}

Passwords == {PyNone}

\* A JSON string sent where a boolean is expected.
NotABool == "oui"

\* The values the fact-update requests carry for fact f: null or a kind for
\* the enrollment kind, null, a boolean or a string for the four others.
FactValues(f) ==
    IF f = "inscription_type"
    THEN {PyNone} \cup DeclaredKinds
    ELSE {PyNone, PyTrue, PyFalse, NotABool}

AllFactValues == UNION {FactValues(f) : f \in FactNames}

SubsetsUpTo(S, n) == {K \in SUBSET S : Cardinality(K) <= n}

\* The bodies of POST /api/profile/{session_id}/update.
FactUpdates ==
    {d \in UNION {[K -> AllFactValues] : K \in SubsetsUpTo(FactNames, MaxUpdateKeys)} :
        \A f \in DOMAIN d : d[f] \in FactValues(f)}

\* The form keys the requests carry.
FormKeys == {"nom_naissance"}

FormValues(k) == {"DUPONT"}

AllFormValues == UNION {FormValues(k) : k \in FormKeys}

\* The "form_data" objects a request may carry.
FormDatas ==
    {d \in UNION {[K -> AllFormValues] : K \in SubsetsUpTo(FormKeys, MaxFormKeys)} :
        \A k \in DOMAIN d : d[k] \in FormValues(k)}

StepValues == {Absent, "etat_civil"}
PhaseValues == {Absent, CollecteInfo, RemplissageFormulaire}

\* The "profile_data" objects of the save-profile request; NoProfileData is a
\* request without one.
NoProfileData ==
    [form_data |-> <<>>, phase |-> Absent, current_step |-> Absent, given |-> FALSE]
ProfileDatas ==
    {NoProfileData} \cup
    [form_data : FormDatas, phase : PhaseValues, current_step : StepValues,
     given : {TRUE}]

\* The format query parameter of the export, and format.strip().lower().
ExportFormats == {"csv", " CSV ", "email", "pdf", ""}
StripLower(format) == IF format = " CSV " THEN "csv" ELSE format

---------------------------------------------------------------------------
(* HTTP handlers (main.py): the tables left and the reply returned *)

Reply(status, body) == [status |-> status, body |-> body]

\* raise HTTPException(status_code=status, detail=detail): nothing is written.
Raise(status, detail) ==
    [table |-> student_profiles, reply |-> Reply(status, [detail |-> detail])]

ProfilNonTrouve == Raise(404, "Profil non trouvé")
Phase1Required == Raise(400, "Vous devez d'abord compléter la phase 1")

\* POST /api/profile/start, for the session id uuid4 returned.
start_profile(sid) ==
    [table |-> Put(student_profiles, sid, NewRow(PyNone)),
     reply |-> Reply(200, [session_id |-> sid, phase |-> NewRow(PyNone).phase])]

\* GET /api/profile/{session_id}
get_profile(sid) ==
    IF sid \notin DOMAIN student_profiles THEN ProfilNonTrouve
    ELSE [table |-> student_profiles,
          reply |-> Reply(200, to_dict(db_to_profile(student_profiles[sid])))]

\* Variant of AssignFacts: `profile.f = data.get("f")` in place of the
\* assignments under `if "f" in data`.
AssignFacts_Resetting(p, data) ==
    [f \in ProfileFields |->
        IF f \in FactNames
        THEN (IF f \in DOMAIN data THEN data[f] ELSE PyNone)
        ELSE p[f]]

\* "Mettre à jour les champs": the five `if key in data` assignments.
AssignFacts(p, data) ==
    [f \in ProfileFields |->
        IF f \in FactNames /\ f \in DOMAIN data THEN data[f] ELSE p[f]]

\* "Vérifier si la phase 1 est complète": the advance inside update_profile.
AdvanceIfComplete(p) ==
    IF is_phase1_complete(p) /\ p.phase = CollecteInfo
    THEN move_to_phase2(p).profile
    ELSE p

\* The profile update_profile holds when it saves: facts assigned, documents
\* recalculated, phase advanced when phase 1 is complete.
UpdatedProfile(p, data) ==
    AdvanceIfComplete(calculate_required_documents(AssignFacts(p, data)).profile)

\* POST /api/profile/{session_id}/update
update_profile(sid, data) ==
    IF sid \notin DOMAIN student_profiles THEN ProfilNonTrouve
    ELSE LET profile ==
                 UpdatedProfile(db_to_profile(student_profiles[sid]), data)
         IN  [table |-> save_profile(student_profiles, sid, profile).table,
              reply |->
                  Reply(200,
                        [profile |-> to_dict(profile),
                         phase1_complete |-> is_phase1_complete(profile),
                         required_documents |-> profile.required_documents])]

\* Variant of BackfillTypeInscription without the
\* `"type_inscription" not in profile.form_data` test.
BackfillTypeInscription_Overwriting(p) ==
    IF Truthy(p.inscription_type)
    THEN IF p.inscription_type = "premiere_inscription"
         THEN [p EXCEPT !.form_data = Put(@, "type_inscription", "1ère Inscription")]
         ELSE IF p.inscription_type \in {"lap", "master", "prep_concours"}
         THEN [p EXCEPT !.form_data = Put(@, "type_inscription", "Réinscription")]
         ELSE p
    ELSE p

\* "Ajouter automatiquement le type d'inscription dans form_data".
BackfillTypeInscription(p) ==
    IF Truthy(p.inscription_type) /\ "type_inscription" \notin DOMAIN p.form_data
    THEN IF p.inscription_type = "premiere_inscription"
         THEN [p EXCEPT !.form_data = Put(@, "type_inscription", "1ère Inscription")]
         ELSE IF p.inscription_type \in {"lap", "master", "prep_concours"}
         THEN [p EXCEPT !.form_data = Put(@, "type_inscription", "Réinscription")]
         ELSE p
    ELSE p

\* The profile start_phase2 holds when it saves, once its guard has passed.
Phase2Profile(p) ==
    move_to_phase2(
        BackfillTypeInscription(calculate_required_documents(p).profile)).profile

\* Variant of Phase2Refused: only the enrollment kind is required.
Phase2Refused_KindOnly(p) == p.inscription_type = PyNone

\* The guard of start_phase2: `if not profile.is_phase1_complete()`.
Phase2Refused(p) == ~is_phase1_complete(p)

\* POST /api/profile/{session_id}/phase2
start_phase2(sid) ==
    IF sid \notin DOMAIN student_profiles THEN ProfilNonTrouve
    ELSE LET loaded == db_to_profile(student_profiles[sid])
             profile == Phase2Profile(loaded)
         IN  IF Phase2Refused(loaded)
             THEN Raise(400, "La phase 1 n'est pas complète")
             ELSE [table |-> save_profile(student_profiles, sid, profile).table,
                   reply |-> Reply(200, [profile |-> to_dict(profile)])]

\* Variant of FormUpdatedProfile: a key sent with the value it already holds
\* is taken out of the form.
FormUpdatedProfile_Toggling(p, form_data, current_step) ==
    LET merged == DictUpdate(p.form_data, form_data)
        kept == {k \in DOMAIN merged :
                    ~(/\ k \in DOMAIN form_data
                      /\ k \in DOMAIN p.form_data
                      /\ p.form_data[k] = form_data[k])}
    IN  [p EXCEPT !.form_data = [k \in kept |-> merged[k]],
                  !.current_step =
                      IF current_step = Absent THEN @ ELSE current_step]

\* Variant of FormUpdatedProfile: `profile.form_data = data.get("form_data",
\* {})` in place of the update of the stored mapping.
FormUpdatedProfile_Replacing(p, form_data, current_step) ==
    [p EXCEPT !.form_data = form_data,
              !.current_step = IF current_step = Absent THEN @ ELSE current_step]

\* The profile update_form_data holds when it saves.
FormUpdatedProfile(p, form_data, current_step) ==
    [p EXCEPT !.form_data = DictUpdate(@, form_data),
              !.current_step = IF current_step = Absent THEN @ ELSE current_step]

\* POST /api/profile/{session_id}/form-data; form_data is
\* data.get("form_data", {}), current_step is Absent when data has no such key.
update_form_data(sid, form_data, current_step) ==
    IF sid \notin DOMAIN student_profiles THEN ProfilNonTrouve
    ELSE LET loaded == db_to_profile(student_profiles[sid])
             profile == FormUpdatedProfile(loaded, form_data, current_step)
         IN  IF loaded.phase # RemplissageFormulaire
             THEN Phase1Required
             ELSE [table |-> save_profile(student_profiles, sid, profile).table,
                   reply |-> Reply(200, [profile |-> to_dict(profile)])]

\* Variant of MissingFieldsOf: the `elif "field" in section` branch for every
\* section, so one name is listed per missing section.
MissingFieldsOf_OnePerSection(profile) ==
    LET missing == get_missing_sections(profile.form_data)
    IN  [i \in 1..Len(missing) |-> missing[i].missing_fields[1]]

\* The missing_fields list get_missing_fields builds for a loaded profile.
MissingFieldsOf(profile) ==
    FlattenMissing(get_missing_sections(profile.form_data))

\* check_missing_sections_wrapper of the agent, for a loaded profile: TRUE
\* when it reports the form complete.
check_missing_sections_wrapper(profile) ==
    get_missing_sections(profile.form_data) = <<>>

\* GET /api/profile/{session_id}/missing-fields
get_missing_fields(sid) ==
    IF sid \notin DOMAIN student_profiles THEN ProfilNonTrouve
    ELSE LET loaded == db_to_profile(student_profiles[sid])
             missing_fields == MissingFieldsOf(loaded)
         IN  IF loaded.phase # RemplissageFormulaire
             THEN Phase1Required
             ELSE [table |-> student_profiles,
                   reply |->
                       Reply(200,
                             [missing_fields |-> missing_fields,
                              next_field |->
                                  IF missing_fields # <<>>
                                  THEN missing_fields[1] ELSE PyNone,
                              total_missing |-> Len(missing_fields)])]

\* The numbered rows format_documents_for_csv and format_documents_for_email
\* write: enumerate(documents, 1).
NumberedDocuments(documents) ==
    [i \in 1..Len(documents) |-> <<i, documents[i]>>]

\* Variant of export_documents: no test of an empty list; the export of no
\* document is rendered with no row.
export_documents_EmptyRendered(sid, format) ==
    IF sid \notin DOMAIN student_profiles THEN ProfilNonTrouve
    ELSE LET loaded == db_to_profile(student_profiles[sid])
             normalized == IF format # "" THEN StripLower(format) ELSE "csv"
         IN  IF normalized \in {"csv", "email"}
             THEN [table |-> student_profiles,
                   reply |->
                       Reply(200,
                             [format |-> normalized,
                              rows |-> NumberedDocuments(loaded.required_documents)])]
             ELSE Raise(400, "Format non supporté")

\* GET /api/profile/{session_id}/export
export_documents(sid, format) ==
    IF sid \notin DOMAIN student_profiles THEN ProfilNonTrouve
    ELSE LET loaded == db_to_profile(student_profiles[sid])
             normalized == IF format # "" THEN StripLower(format) ELSE "csv"
         IN  IF loaded.required_documents = <<>>
             THEN Raise(400, "Aucun document à exporter")
             ELSE IF normalized \in {"csv", "email"}
             THEN [table |-> student_profiles,
                   reply |->
                       Reply(200,
                             [format |-> normalized,
                              rows |-> NumberedDocuments(loaded.required_documents)])]
             ELSE Raise(400, "Format non supporté")

\* UserAccount.hash_password
hash_password(password) == <<"sha256", password>>

\* The emails for which session.query(UserAccountDB).filter_by(email=email)
\* finds a row.
AccountEmails(accounts) == {accounts[i].email : i \in DOMAIN accounts}

\* The UserAccountDB row create_account adds; <<>> stands for the empty
\* password_hash of an account without a password.
NewAccount(email, password) ==
    [email |-> email,
     password_hash |->
         IF Truthy(password) THEN hash_password(password) ELSE <<>>]

EmailRequis == [detail |-> "Email requis"]
CompteExiste == [detail |-> "Un compte avec cet email existe déjà"]

\* Variant of create_account without the `if existing` check.
create_account_Unchecked(email, password) ==
    IF ~Truthy(email)
    THEN [accounts |-> user_accounts, reply |-> Reply(400, EmailRequis)]
    ELSE [accounts |-> Append(user_accounts, NewAccount(email, password)),
          reply |-> Reply(200, [message |-> "Compte créé", email |-> email])]

\* POST /api/account/create, with DBAccountManager.create_account
create_account(email, password) ==
    IF ~Truthy(email)
    THEN [accounts |-> user_accounts, reply |-> Reply(400, EmailRequis)]
    ELSE IF email \in AccountEmails(user_accounts)
    THEN [accounts |-> user_accounts, reply |-> Reply(400, CompteExiste)]
    ELSE [accounts |-> Append(user_accounts, NewAccount(email, password)),
          reply |-> Reply(200, [message |-> "Compte créé", email |-> email])]

\* DBAccountManager.verify_password with UserAccount.verify_password: an
\* account without a password_hash accepts any password.
verify_password(accounts, email, password) ==
    /\ email \in AccountEmails(accounts)
    /\ LET row == accounts[CHOOSE i \in DOMAIN accounts : accounts[i].email = email]
       IN  row.password_hash = <<>> \/ hash_password(password) = row.password_hash

\* POST /api/account/login: the reply; password is None when the request
\* carries none. The last_login timestamp it writes is not part of the rows.
login(email, password) ==
    IF ~Truthy(email) THEN Reply(400, EmailRequis)
    ELSE IF (IF Truthy(password)
             THEN verify_password(user_accounts, email, password)
             ELSE email \in AccountEmails(user_accounts))
    THEN Reply(200, [message |-> "Connecté", email |-> email])
    ELSE Reply(401, [detail |-> "Email ou mot de passe incorrect"])

\* The in-memory changes save_profile_to_account applies from profile_data.
ProfileDataApplied(p, profile_data) ==
    [p EXCEPT !.form_data = DictUpdate(@, profile_data.form_data),
              !.phase = IF profile_data.phase = Absent THEN @
                        ELSE profile_data.phase,
              !.current_step = IF profile_data.current_step = Absent THEN @
                               ELSE profile_data.current_step]

\* DBAccountManager.save_profile_to_account on an existing row: every profile
\* column is written and the row is linked to the account.
LinkedRow(email, p) ==
    [f \in ProfileFields \cup {"account_id"} |->
        IF f = "account_id" THEN email ELSE p[f]]

\* DBAccountManager.save_profile_to_account
account_save_profile(table, email, sid, p) ==
    IF email \notin AccountEmails(user_accounts)
    THEN [table |-> table, result |-> FALSE]
    ELSE IF ~Storable(p) THEN [table |-> table, result |-> FALSE]
    ELSE [table |-> Put(table, sid, LinkedRow(email, p)), result |-> TRUE]

\* POST /api/account/{email}/save-profile
save_profile_to_account(email, sid, profile_data) ==
    IF ~Truthy(sid) THEN Raise(400, "session_id requis")
    ELSE IF sid \notin DOMAIN student_profiles THEN ProfilNonTrouve
    ELSE LET loaded == db_to_profile(student_profiles[sid])
             profile == IF profile_data.given
                        THEN ProfileDataApplied(loaded, profile_data)
                        ELSE loaded
             saved == IF profile_data.given
                      THEN save_profile(student_profiles, sid, profile).table
                      ELSE student_profiles
             linked == account_save_profile(saved, email, sid, profile)
         IN  [table |-> linked.table,
              reply |->
                  IF linked.result
                  THEN Reply(200, [message |-> "Profil sauvegardé",
                                   session_id |-> sid])
                  ELSE Reply(500, [detail |->
                                       "Erreur lors de la sauvegarde du profil"])]

---------------------------------------------------------------------------
(* Field classifier (field_detection.py). A format hint is the sequence of   *)
(* its words; a substring test of the source is a test on the words.       *)

\* The words of the format hints, as the catalog writes them.
HintWords ==
    {"Choisir", "JJ/MM/AAAA", "Date", "Année", "annee", "caractères",
     "chiffres", "8", "0", "Code", "annexe", "Adresse", "complète",
     "MAJUSCULES", "Texte"}

\* format_info.lower()
Lower(format) ==
    LET LowerWord(w) ==
            CASE w = "Choisir" -> "choisir"
              [] w = "JJ/MM/AAAA" -> "jj/mm/aaaa"
              [] w = "Date" -> "date"
              [] w = "Année" -> "année"
              [] w = "Code" -> "code"
              [] w = "Adresse" -> "adresse"
              [] w = "MAJUSCULES" -> "majuscules"
              [] w = "Texte" -> "texte"
              [] OTHER -> w
    IN  [i \in DOMAIN format |-> LowerWord(format[i])]

\* `token in format_lower`
Mentions(format_lower, token) ==
    \E i \in DOMAIN format_lower : format_lower[i] = token

\* extract_number: int() of the first word that \d+ matches, or None.
extract_number(text) ==
    LET IntOf == [w \in {"8", "0"} |-> IF w = "8" THEN 8 ELSE 0]
        hits == {i \in DOMAIN text : text[i] \in DOMAIN IntOf}
    IN  IF hits = {} THEN [found |-> FALSE, value |-> 0]
        ELSE [found |-> TRUE,
              value |-> IntOf[text[CHOOSE i \in hits : \A j \in hits : i <= j]]]

\* detect_field_type: the type name it returns, f"numeric_{length}" being
\* <<"numeric", length>>; `if length:` is false for None and for 0.
detect_field_type(field_type, format_info, field_data) ==
    LET format_lower == Lower(format_info)
        length == extract_number(format_lower)
    IN  IF \/ field_type = "choice"
           \/ Mentions(format_lower, "choisir")
           \/ "options" \in DOMAIN field_data
        THEN <<"choice">>
        ELSE IF field_type = "checkbox" THEN <<"checkbox">>
        ELSE IF Mentions(format_lower, "jj/mm/aaaa") \/ Mentions(format_lower, "date")
        THEN <<"date">>
        ELSE IF Mentions(format_lower, "année") \/ Mentions(format_lower, "annee")
        THEN <<"year">>
        ELSE IF /\ Mentions(format_lower, "caractères")
                   \/ Mentions(format_lower, "chiffres")
                /\ length.found /\ length.value # 0
        THEN <<"numeric", length.value>>
        ELSE IF Mentions(format_lower, "code") /\ Mentions(format_lower, "annexe")
        THEN <<"code_annexe">>
        ELSE IF Mentions(format_lower, "adresse") /\ Mentions(format_lower, "complète")
        THEN <<"address">>
        ELSE IF Mentions(format_lower, "majuscules") \/ Mentions(format_lower, "uppercase")
        THEN <<"text_uppercase">>
        ELSE <<"text">>

\* The entry analyze_all_sections stores for a field of a multi-field
\* section; field_data is kept to tell which catalog field was analysed.
DetectionEntry(field_data) ==
    LET field_type == DictGet(field_data, "type", "text")
        format_info == DictGet(field_data, "format", <<>>)
    IN  [type |-> detect_field_type(field_type, format_info, field_data),
         format |-> format_info,
         requires_code |-> Mentions(Lower(format_info), "annexe"),
         field_data |-> field_data]

---------------------------------------------------------------------------
(* The service: every handler, called with any request *)

Init ==
    /\ student_profiles = <<>>
    /\ user_accounts = <<>>
    /\ in_flight = EmptyBag
    /\ FIELD_DETECTION = <<>>

\* A handler that writes student_profiles runs.
Handle(result) ==
    /\ student_profiles' = result.table
    /\ UNCHANGED <<user_accounts, in_flight, FIELD_DETECTION>>

\* A request for an unknown session is sent once per handler, with the
\* smallest body: the handler replies before it reads the body.
StartProfile ==
    \E sid \in SessionIds :
        sid \notin DOMAIN student_profiles /\ Handle(start_profile(sid))
GetProfile == \E sid \in RequestSessionIds : Handle(get_profile(sid))
UpdateProfile ==
    \/ \E sid \in SessionIds, data \in FactUpdates :
           Handle(update_profile(sid, data))
    \/ Handle(update_profile(UnknownSessionId, <<>>))
StartPhase2 == \E sid \in RequestSessionIds : Handle(start_phase2(sid))
UpdateFormData ==
    \/ \E sid \in SessionIds, form_data \in FormDatas,
          current_step \in StepValues :
           Handle(update_form_data(sid, form_data, current_step))
    \/ Handle(update_form_data(UnknownSessionId, <<>>, Absent))
GetMissingFields == \E sid \in RequestSessionIds : Handle(get_missing_fields(sid))
ExportDocuments ==
    \/ \E sid \in SessionIds, format \in ExportFormats :
           Handle(export_documents(sid, format))
    \/ Handle(export_documents(UnknownSessionId, "csv"))
CreateAccount ==
    \E email \in Emails, password \in Passwords :
        /\ user_accounts' = create_account(email, password).accounts
        /\ UNCHANGED <<student_profiles, in_flight, FIELD_DETECTION>>
SaveProfileToAccount ==
    \/ \E email \in RequestEmails, sid \in SessionIds,
          profile_data \in ProfileDatas :
           Handle(save_profile_to_account(email, sid, profile_data))
    \/ \E sid \in {UnknownSessionId, ""} :
           Handle(save_profile_to_account(UnknownEmail, sid, NoProfileData))

Next ==
    \/ StartProfile
    \/ GetProfile
    \/ UpdateProfile
    \/ StartPhase2
    \/ UpdateFormData
    \/ GetMissingFields
    \/ ExportDocuments
    \/ CreateAccount
    \/ SaveProfileToAccount

Spec == Init /\ [][Next]_vars

---------------------------------------------------------------------------
(* The StudentProfile methods on their own: one profile whose five facts   *)
(* are any assignment of their declared types (Optional[str] among the     *)
(* declared kinds, Optional[bool]), on which calculate_required_documents  *)
(* and move_to_phase2 are called in any order.                             *)

TypedFactValues(f) ==
    IF f = "inscription_type"
    THEN {PyNone} \cup DeclaredKinds
    ELSE {PyNone, PyTrue, PyFalse}

TypedProfiles ==
    {AssignFacts(NewProfile, facts) :
        facts \in {d \in [FactNames -> AllFactValues] :
                      \A f \in FactNames : d[f] \in TypedFactValues(f)}}

\* The profile held for session sid, and the table with p held for it.
ProfileOf(sid) == db_to_profile(student_profiles[sid])
WithProfile(sid, p) ==
    Put(student_profiles, sid, SavedRow(student_profiles, sid, p))

InitProfile ==
    /\ \E p \in TypedProfiles :
           student_profiles = Put(<<>>, "s1", SavedRow(<<>>, "s1", p))
    /\ user_accounts = <<>>
    /\ in_flight = EmptyBag
    /\ FIELD_DETECTION = <<>>

CallCalculate ==
    \E sid \in DOMAIN student_profiles :
        /\ student_profiles' =
               WithProfile(sid, calculate_required_documents(ProfileOf(sid)).profile)
        /\ UNCHANGED <<user_accounts, in_flight, FIELD_DETECTION>>

CallMoveToPhase2 ==
    \E sid \in DOMAIN student_profiles :
        /\ student_profiles' =
               WithProfile(sid, move_to_phase2(ProfileOf(sid)).profile)
        /\ UNCHANGED <<user_accounts, in_flight, FIELD_DETECTION>>

NextProfile == CallCalculate \/ CallMoveToPhase2

SpecProfile == InitProfile /\ [][NextProfile]_vars

---------------------------------------------------------------------------
(* The form of phase 2 on its own: one profile in remplissage_formulaire   *)
(* whose form_data is any mapping over a few catalog keys, laid over an    *)
(* empty form or over a form with every required field filled, on which    *)
(* update_form_data and get_missing_fields are called with any JSON value. *)

\* The field of a single-field section, and a required and an optional field
\* of a multi-field section.
WideFormKeys == {"type_inscription", "nom_naissance", "nom_usuel"}

\* The JSON values of a form field: the falsy ones and two others.
WideFormValues == {"", PyNone, PyFalse, PyZero, "1ère Inscription", "DUPONT"}

\* The "form_data" objects of the form-data requests.
WideFormDatas ==
    UNION {[K -> WideFormValues] : K \in SubsetsUpTo(WideFormKeys, MaxFormKeys)}

\* A form with every name of get_all_required_fields filled.
FilledForm ==
    LET names == get_all_required_fields(PyNone)
    IN  [k \in {names[i] : i \in DOMAIN names} |-> "DUPONT"]

\* The forms a profile may hold: base with the keys of WideFormKeys taken out
\* and the entries of d put in.
StoredForms ==
    {[k \in (DOMAIN base \ WideFormKeys) \cup DOMAIN d |->
         IF k \in DOMAIN d THEN d[k] ELSE base[k]] :
        base \in {<<>>, FilledForm},
        d \in UNION {[K -> WideFormValues] : K \in SUBSET WideFormKeys}}

\* The profiles that reached remplissage_formulaire through the fact updates.
FormProfiles ==
    {[UpdatedProfile(NewProfile,
                     [inscription_type |-> kind, is_boursier |-> PyFalse,
                      is_mineur |-> PyFalse,
                      inscrit_autre_etablissement |-> PyFalse,
                      has_jdc |-> PyTrue])
        EXCEPT !.form_data = form] :
        kind \in {"lap"}, form \in StoredForms}

InitForm ==
    /\ \E p \in FormProfiles :
           student_profiles = Put(<<>>, "s1", SavedRow(<<>>, "s1", p))
    /\ user_accounts = <<>>
    /\ in_flight = EmptyBag
    /\ FIELD_DETECTION = <<>>

UpdateFormDataWide ==
    \E sid \in SessionIds, form_data \in WideFormDatas,
       current_step \in StepValues :
        Handle(update_form_data(sid, form_data, current_step))

NextForm == UpdateFormDataWide \/ GetMissingFields

SpecForm == InitForm /\ [][NextForm]_vars

---------------------------------------------------------------------------
(* The accounts on their own: two emails and two passwords, one session    *)
(* that is attached to an account and whose form is written with a catalog *)
(* key and with a key the catalog does not define.                         *)

WideEmails == {"a@amu.fr", "b@amu.fr"}
WidePasswords == {PyNone, "secret"}

\* A field name of the catalog and a key that get_section_by_field finds in
\* no section.
LooseFormKeys == {"nom_naissance", "commentaire"}

\* The "form_data" objects of the requests: no key or one key.
LooseFormDatas ==
    UNION {[K -> {"DUPONT"}] : K \in SubsetsUpTo(LooseFormKeys, MaxFormKeys)}

\* The "profile_data" objects of the save-profile requests.
LooseProfileDatas ==
    {NoProfileData} \cup
    [form_data : LooseFormDatas, phase : {Absent, RemplissageFormulaire},
     current_step : {Absent}, given : {TRUE}]

InitAccount ==
    /\ student_profiles = <<>>
    /\ user_accounts = <<>>
    /\ in_flight = EmptyBag
    /\ FIELD_DETECTION = <<>>

CreateAccountWide ==
    \E email \in WideEmails, password \in WidePasswords :
        /\ user_accounts' = create_account(email, password).accounts
        /\ UNCHANGED <<student_profiles, in_flight, FIELD_DETECTION>>

SaveProfileToAccountWide ==
    \E email \in WideEmails, sid \in SessionIds,
       profile_data \in LooseProfileDatas :
        Handle(save_profile_to_account(email, sid, profile_data))

\* The passwords of the login requests: none, empty, the right and a wrong one.
LoginPasswords == WidePasswords \cup {"", "autre"}

Login ==
    \E email \in WideEmails \cup {UnknownEmail}, password \in LoginPasswords :
        /\ login(email, password).status \in {200, 401}
        /\ UNCHANGED vars

UpdateFormDataLoose ==
    \E sid \in SessionIds, form_data \in LooseFormDatas :
        Handle(update_form_data(sid, form_data, Absent))

NextAccount ==
    \/ StartProfile
    \/ CreateAccountWide
    \/ SaveProfileToAccountWide
    \/ UpdateFormDataLoose
    \/ Login

SpecAccount == InitAccount /\ [][NextAccount]_vars

---------------------------------------------------------------------------
(* Two sessions at once. update_profile and update_form_data load the      *)
(* profile, wait for the request body at `await request.json()` and save   *)
(* afterwards, so other requests run between the load and the save.        *)

TwoSessionIds == {"s1", "s2"}

\* The requests of one session that may wait for their body at once.
MaxInFlight == 1

\* The bodies of the fact updates: every fact of a re-enrollment, and two
\* different facts alone.
SessionFactUpdates ==
    {[inscription_type |-> "lap", is_boursier |-> PyFalse, is_mineur |-> PyFalse,
      inscrit_autre_etablissement |-> PyFalse, has_jdc |-> PyTrue],
     [is_boursier |-> PyTrue],
     [has_jdc |-> PyFalse]}

\* The "form_data" objects of the form-data requests: two different keys.
SessionFormDatas == {[nom_naissance |-> "DUPONT"], [nom_usuel |-> "MARTIN"]}

\* The bodies a waiting request may receive.
Bodies(op) == IF op = "update" THEN SessionFactUpdates ELSE SessionFormDatas

\* A request of session sid that ran load_profile and waits for its body.
Pending(table, sid, op) ==
    [session_id |-> sid, op |-> op, profile |-> db_to_profile(table[sid])]

\* The waiting requests of session sid.
OwnFlight(flight, sid) ==
    [r \in {x \in BagToSet(flight) : x.session_id = sid} |-> flight[r]]

\* update_profile and update_form_data up to the await: 404 and the phase
\* refusal of update_form_data end the request before it.
CanBegin(table, flight, sid, op) ==
    /\ sid \in DOMAIN table
    /\ BagCardinality(OwnFlight(flight, sid)) < MaxInFlight
    /\ op = "form-data" => table[sid].phase = RemplissageFormulaire

\* update_profile and update_form_data after the await: the table left when
\* the request r, holding the profile it loaded, receives body.
Completed(table, r, body) ==
    IF r.op = "update"
    THEN save_profile(table, r.session_id, UpdatedProfile(r.profile, body)).table
    ELSE save_profile(table, r.session_id,
                      FormUpdatedProfile(r.profile, body, Absent)).table

InitSessions ==
    /\ student_profiles = <<>>
    /\ user_accounts = <<>>
    /\ in_flight = EmptyBag
    /\ FIELD_DETECTION = <<>>

StartProfileTwo ==
    \E sid \in TwoSessionIds :
        sid \notin DOMAIN student_profiles /\ Handle(start_profile(sid))

BeginRequest ==
    \E sid \in TwoSessionIds, op \in {"update", "form-data"} :
        /\ CanBegin(student_profiles, in_flight, sid, op)
        /\ in_flight' = in_flight (+) SetToBag({Pending(student_profiles, sid, op)})
        /\ UNCHANGED <<student_profiles, user_accounts, FIELD_DETECTION>>

CompleteRequest ==
    \E r \in BagToSet(in_flight) :
        \E body \in Bodies(r.op) :
            /\ student_profiles' = Completed(student_profiles, r, body)
            /\ in_flight' = in_flight (-) SetToBag({r})
            /\ UNCHANGED <<user_accounts, FIELD_DETECTION>>

StartPhase2Two == \E sid \in TwoSessionIds : Handle(start_phase2(sid))

NextSessions ==
    \/ StartProfileTwo
    \/ BeginRequest
    \/ CompleteRequest
    \/ StartPhase2Two

SpecSessions == InitSessions /\ [][NextSessions]_vars

---------------------------------------------------------------------------
(* One session with concurrent writers: several requests of the session    *)
(* wait for their body at once, each holding the profile it loaded.        *)

\* The requests of the session that may wait for their body at once.
MaxWriters == 2

BeginConcurrent ==
    \E sid \in SessionIds, op \in {"update", "form-data"} :
        /\ sid \in DOMAIN student_profiles
        /\ BagCardinality(in_flight) < MaxWriters
        /\ op = "form-data" => student_profiles[sid].phase = RemplissageFormulaire
        /\ in_flight' = in_flight (+) SetToBag({Pending(student_profiles, sid, op)})
        /\ UNCHANGED <<student_profiles, user_accounts, FIELD_DETECTION>>

NextWriters ==
    \/ StartProfile
    \/ BeginConcurrent
    \/ CompleteRequest
    \/ StartPhase2

SpecWriters == InitSessions /\ [][NextWriters]_vars

---------------------------------------------------------------------------
(* The classifier on its own: analyze_all_sections meets one field, with    *)
(* any declared type, any hint of a few words, with or without options.    *)

\* The words of a format hint.
MaxHintWords == 2

RECURSIVE SeqsUpTo(_, _)
SeqsUpTo(S, n) ==
    IF n = 0 THEN {<<>>}
    ELSE LET shorter == SeqsUpTo(S, n - 1)
         IN  shorter \cup {Append(q, w) : q \in shorter, w \in S}

\* The field_info dictionaries of the catalog: "format" always, "type" and
\* "options" for some.
FieldDatas ==
    {[k \in ({"format"} \cup K) |->
         IF k = "format" THEN format
         ELSE IF k = "type" THEN type
         ELSE <<"M.", "F.">>] :
        format \in SeqsUpTo(HintWords, MaxHintWords),
        type \in {"choice", "checkbox", "info"},
        K \in SUBSET {"type", "options"}}

InitClassifier ==
    /\ student_profiles = <<>>
    /\ user_accounts = <<>>
    /\ in_flight = EmptyBag
    /\ FIELD_DETECTION = <<>>

\* analyze_all_sections at import, for the field named "champ" of a
\* multi-field section.
AnalyzeField ==
    \E field_data \in FieldDatas :
        /\ "champ" \notin DOMAIN FIELD_DETECTION
        /\ FIELD_DETECTION' = Put(FIELD_DETECTION, "champ", DetectionEntry(field_data))
        /\ UNCHANGED <<student_profiles, user_accounts, in_flight>>

SpecClassifier == InitClassifier /\ [][AnalyzeField]_vars

---------------------------------------------------------------------------
(* Properties *)

Range(s) == {s[i] : i \in DOMAIN s}

AllFactsSet(p) == \A f \in FactNames : p[f] # PyNone

\* The documents of the enrollment-kind branches and the cross-cutting ones.
KindSpecificDocs ==
    {DocDiplome, DocDroitImage, DocJDC, DocAutorisationInscription,
     DocCarteEtudiante, DocAutorisationParentale}
CrossCuttingDocs == {DocCROUS, DocBulletinVersement}

\* The first-enrollment scenario: no scholarship, of age, not enrolled
\* elsewhere, with the given has_jdc.
FirstEnrollmentScenario(p, has_jdc) ==
    /\ p.inscription_type = "premiere_inscription"
    /\ p.is_boursier = PyFalse
    /\ p.is_mineur = PyFalse
    /\ p.inscrit_autre_etablissement = PyFalse
    /\ p.has_jdc = has_jdc

\* C1: once the stored phase of a profile is remplissage_formulaire it is
\* remplissage_formulaire in every later state. Refuted by save-profile, which
\* writes the phase its request carries.
C1_PhaseNeverReverts ==
    [][\A sid \in DOMAIN student_profiles :
          student_profiles[sid].phase = RemplissageFormulaire
              => student_profiles'[sid].phase = RemplissageFormulaire]_vars

\* C2: every step that takes a stored profile from collecte_info to
\* remplissage_formulaire leaves it with all five facts set. Refuted by
\* save-profile, which writes the phase without reading the facts.
C2_AdvanceOnlyWithAllFacts ==
    [][\A sid \in DOMAIN student_profiles :
          /\ student_profiles[sid].phase = CollecteInfo
          /\ student_profiles'[sid].phase = RemplissageFormulaire
          => AllFactsSet(student_profiles'[sid])]_vars

\* C3: is_phase1_complete, and with it the result of move_to_phase2, is true
\* exactly when none of the five facts is None.
C3_CanAdvanceIffAllFactsSet ==
    \A sid \in DOMAIN student_profiles :
        LET p == ProfileOf(sid)
        IN  /\ is_phase1_complete(p) <=> AllFactsSet(p)
            /\ move_to_phase2(p).result <=> AllFactsSet(p)
            /\ p.phase = RemplissageFormulaire => AllFactsSet(p)

\* C3 witness: a profile with every fact set, one of them to False, on which
\* move_to_phase2 has acted.
C3_Witness ==
    \E sid \in DOMAIN student_profiles :
        /\ AllFactsSet(ProfileOf(sid))
        /\ ProfileOf(sid).is_boursier = PyFalse
        /\ ProfileOf(sid).phase = RemplissageFormulaire

\* C4: a phase advance requested on a stored profile with a fact unset is
\* answered 400 and leaves the stored profile as it was.
C4_RefusedAdvanceChangesNothing ==
    \A sid \in DOMAIN student_profiles :
        ~AllFactsSet(student_profiles[sid])
            => /\ start_phase2(sid).reply.status = 400
               /\ start_phase2(sid).table = student_profiles

\* C4 witness: a stored profile in collecte_info whose scholarship fact alone
\* is unset and whose documents were calculated, for which the advance is
\* refused.
C4_Witness ==
    \E sid \in DOMAIN student_profiles :
        LET row == student_profiles[sid]
        IN  /\ row.is_boursier = PyNone
            /\ \A f \in FactNames \ {"is_boursier"} : row[f] # PyNone
            /\ row.phase = CollecteInfo
            /\ row.required_documents # <<>>
            /\ start_phase2(sid).reply.status = 400

\* C5: after a fact update that is answered 200, the stored
\* required_documents list is the one calculate_required_documents gives for
\* the stored facts. Refuted by an update whose save fails: it is answered
\* 200 and the stored list stays as it was.
C5_StoredDocumentsFollowFacts ==
    \A sid \in DOMAIN student_profiles, data \in FactUpdates :
        LET after == update_profile(sid, data)
        IN  after.reply.status = 200
                => after.table[sid].required_documents =
                       BuildDocuments(after.table[sid])

\* C6: for premiere_inscription with the four other facts False the list is
\* the four common documents, the diploma proof, the image-rights form and
\* the JDC attestation, in that order.
C6_FirstEnrollmentSevenDocuments ==
    \A sid \in DOMAIN student_profiles :
        LET p == ProfileOf(sid)
            expected ==
                <<DocPhoto, DocIdentite, DocResponsabiliteCivile, DocCVEC,
                  DocDiplome, DocDroitImage, DocJDC>>
        IN  FirstEnrollmentScenario(p, PyFalse)
                => /\ calculate_required_documents(p).result = expected
                   /\ p.required_documents \in {<<>>, expected}

\* C6 witness: the scenario, after calculate_required_documents has stored
\* its seven documents.
C6_Witness ==
    \E sid \in DOMAIN student_profiles :
        /\ FirstEnrollmentScenario(ProfileOf(sid), PyFalse)
        /\ Len(ProfileOf(sid).required_documents) = 7

\* C7: for the four kinds the calculation branches on, the JDC attestation is
\* in the list exactly when has_jdc is not True; the first-enrollment scenario
\* with has_jdc True gives 6 documents.
C7_JdcIffNoCertificate ==
    \A sid \in DOMAIN student_profiles :
        LET p == ProfileOf(sid)
            documents == calculate_required_documents(p).result
        IN  /\ p.inscription_type \in HandledKinds
                => /\ DocJDC \in Range(documents) <=> p.has_jdc # PyTrue
                   /\ p.required_documents # <<>>
                          => (DocJDC \in Range(p.required_documents)
                                 <=> p.has_jdc # PyTrue)
            /\ FirstEnrollmentScenario(p, PyTrue) => Len(documents) = 6

\* C7 witness: the first-enrollment scenario with the certificate supplied,
\* after its six documents were stored.
C7_Witness ==
    \E sid \in DOMAIN student_profiles :
        /\ FirstEnrollmentScenario(ProfileOf(sid), PyTrue)
        /\ Len(ProfileOf(sid).required_documents) = 6
        /\ DocJDC \notin Range(ProfileOf(sid).required_documents)

\* C8: with the four other facts equal, lap, master and prep_concours give
\* the same ordered list.
C8_ReEnrollmentKindsAgree ==
    \A sid \in DOMAIN student_profiles :
        LET p == ProfileOf(sid)
        IN  p.inscription_type \in {"lap", "master", "prep_concours"}
                => \A kind \in {"lap", "master", "prep_concours"} :
                       LET q == [p EXCEPT !.inscription_type = kind]
                       IN  /\ calculate_required_documents(q).result =
                                  calculate_required_documents(p).result
                           /\ p.required_documents # <<>>
                                  => p.required_documents =
                                         calculate_required_documents(q).result

\* C8 witness: a minor in prep_concours without certificate whose stored list
\* is the eight documents lap gives.
C8_Witness ==
    \E sid \in DOMAIN student_profiles :
        LET p == ProfileOf(sid)
        IN  /\ p.inscription_type = "prep_concours"
            /\ p.is_mineur = PyTrue
            /\ p.has_jdc = PyFalse
            /\ Len(p.required_documents) >= 8
            /\ p.required_documents =
                   calculate_required_documents(
                       [p EXCEPT !.inscription_type = "lap"]).result

\* C9: a second calculate_required_documents on unchanged facts returns the
\* list the first returned and leaves the stored list the first left.
C9_CalculateIdempotent ==
    \A sid \in DOMAIN student_profiles :
        LET first == calculate_required_documents(ProfileOf(sid))
            second == calculate_required_documents(first.profile)
        IN  /\ second.result = first.result
            /\ second.profile.required_documents =
                   first.profile.required_documents
            /\ ProfileOf(sid).required_documents # <<>>
                   => first.result = ProfileOf(sid).required_documents

\* C9 witness: a profile that holds the list of a first calculation.
C9_Witness ==
    \E sid \in DOMAIN student_profiles :
        /\ ProfileOf(sid).required_documents # <<>>
        /\ ProfileOf(sid).is_boursier = PyTrue
        /\ ProfileOf(sid).inscription_type = "master"

\* A list in the order baseline, kind-specific, cross-cutting.
DocumentsOrdered(documents) ==
    /\ Len(documents) >= 4
    /\ SubSeq(documents, 1, 4) =
           <<DocPhoto, DocIdentite, DocResponsabiliteCivile, DocCVEC>>
    /\ \A i \in 5..Len(documents) :
           documents[i] \in KindSpecificDocs \cup CrossCuttingDocs
    /\ \A i, j \in 5..Len(documents) :
           i < j => /\ documents[i] \in CrossCuttingDocs
                        => documents[j] \in CrossCuttingDocs
                    /\ documents[i] = DocBulletinVersement
                        => documents[j] # DocCROUS

\* C10: the list starts with the four common documents in their order, then
\* holds the kind-specific documents, then the cross-cutting ones, the CROUS
\* attestation before the fee-payment proof; no kind-specific document comes
\* after a cross-cutting one.
C10_BaselineKindCrossCuttingOrder ==
    \A sid \in DOMAIN student_profiles :
        /\ DocumentsOrdered(calculate_required_documents(ProfileOf(sid)).result)
        /\ ProfileOf(sid).required_documents # <<>>
               => DocumentsOrdered(ProfileOf(sid).required_documents)

\* C10 witness: a stored list that holds kind-specific documents and both
\* cross-cutting documents.
C10_Witness ==
    \E sid \in DOMAIN student_profiles :
        LET documents == ProfileOf(sid).required_documents
        IN  /\ Len(documents) = 10
            /\ documents[9] = DocCROUS
            /\ documents[10] = DocBulletinVersement

\* C11: for every enrollment kind, None included, and every value of the
\* other facts, the CROUS attestation is on the calculated list iff
\* is_boursier is True, and the fee-payment proof is on it iff
\* inscrit_autre_etablissement is True; a stored list agrees.
C11_CrossCuttingIffFacts ==
    \A sid \in DOMAIN student_profiles :
        LET p == ProfileOf(sid)
            documents == calculate_required_documents(p).result
        IN  /\ DocCROUS \in Range(documents) <=> p.is_boursier = PyTrue
            /\ DocBulletinVersement \in Range(documents)
                   <=> p.inscrit_autre_etablissement = PyTrue
            /\ p.required_documents # <<>>
                   => /\ DocCROUS \in Range(p.required_documents)
                          <=> p.is_boursier = PyTrue
                      /\ DocBulletinVersement \in Range(p.required_documents)
                          <=> p.inscrit_autre_etablissement = PyTrue

\* C11 witness: a calculated list of a profile with no enrollment kind that
\* holds the CROUS attestation and not the fee-payment proof.
C11_Witness ==
    \E sid \in DOMAIN student_profiles :
        LET p == ProfileOf(sid)
        IN  /\ p.inscription_type = PyNone
            /\ p.is_boursier = PyTrue
            /\ p.inscrit_autre_etablissement = PyFalse
            /\ p.required_documents = CommonDocuments \o <<DocCROUS>>

\* C12: calculate_required_documents writes required_documents and nothing
\* else: the five facts, phase, current_step, form_data and form_completed of
\* the profile are as before the call.
C12_CalculateWritesOnlyDocuments ==
    \A sid \in DOMAIN student_profiles :
        LET p == ProfileOf(sid)
            after == calculate_required_documents(p).profile
        IN  /\ DOMAIN after = DOMAIN p
            /\ \A f \in DOMAIN p \ {"required_documents"} : after[f] = p[f]

\* C12 witness: a profile in remplissage_formulaire that needs the JDC
\* attestation and holds its calculated list.
C12_Witness ==
    \E sid \in DOMAIN student_profiles :
        LET p == ProfileOf(sid)
        IN  /\ p.phase = RemplissageFormulaire
            /\ p.has_jdc = PyFalse
            /\ p.required_documents # <<>>
            /\ DocJDC \in Range(p.required_documents)

\* The section numbers get_missing_sections lists for a form, in its order.
MissingNumbers(form_data) ==
    LET missing == get_missing_sections(form_data)
    IN  [i \in 1..Len(missing) |-> missing[i].number]

\* The numbers from 1 to 24 outside the set `out`, in ascending order.
NumbersExcept(out) ==
    LET kept == SelectSeq([i \in 1..24 |-> i], LAMBDA n : n \notin out)
    IN  kept

\* The form of the profile held for sid.
FormOf(sid) == ProfileOf(sid).form_data

\* C13, as claimed: on an empty form get_missing_sections lists every section
\* of the catalog except the optional sections 7, 14, 15 and 22.
C13_EmptyFormListsAllRequired ==
    \A sid \in DOMAIN student_profiles :
        FormOf(sid) = <<>>
            => MissingNumbers(FormOf(sid)) = NumbersExcept({7, 14, 15, 22})

\* C13, amended: on an empty form get_missing_sections lists, in ascending
\* order, the 19 sections that are marked required and have a required
\* field: every section except 7, 14, 15, 22 and section 9, which is marked
\* required and has only optional fields.
C13_EmptyFormListsSectionsWithRequiredField ==
    \A sid \in DOMAIN student_profiles :
        FormOf(sid) = <<>>
            => /\ MissingNumbers(FormOf(sid)) = NumbersExcept({7, 9, 14, 15, 22})
               /\ Len(get_missing_sections(FormOf(sid))) = 19
               /\ FORM_SECTIONS[9].required
               /\ \A i \in DOMAIN FORM_SECTIONS[9].fields :
                      ~FORM_SECTIONS[9].fields[i].required

\* C13 witness: a profile in remplissage_formulaire with an empty form, for
\* which get_missing_fields answers with type_inscription as the next field.
C13_Witness ==
    \E sid \in DOMAIN student_profiles :
        /\ FormOf(sid) = <<>>
        /\ get_missing_fields(sid).reply.status = 200
        /\ get_missing_fields(sid).reply.body.next_field = "type_inscription"

\* A form that holds a non-empty type_inscription and nothing else.
OnlyTypeInscription(form_data) ==
    /\ DOMAIN form_data = {"type_inscription"}
    /\ form_data["type_inscription"] = "1ère Inscription"

\* C14, as claimed: on a form that holds only type_inscription,
\* get_missing_sections does not list section 1 and lists every other section
\* marked required.
C14_OnlyTypeListsAllOtherRequired ==
    \A sid \in DOMAIN student_profiles :
        OnlyTypeInscription(FormOf(sid))
            => MissingNumbers(FormOf(sid)) = NumbersExcept({1, 7, 14, 15, 22})

\* C14, amended: on a form that holds only type_inscription,
\* get_missing_sections does not list section 1 and lists every other section
\* that is marked required and has a required field: 18 sections, section 9
\* not among them.
C14_OnlyTypeListsOthersWithRequiredField ==
    \A sid \in DOMAIN student_profiles :
        OnlyTypeInscription(FormOf(sid))
            => LET numbers == MissingNumbers(FormOf(sid))
               IN  /\ 1 \notin Range(numbers)
                   /\ numbers = NumbersExcept({1, 7, 9, 14, 15, 22})
                   /\ Len(numbers) = 18

\* C14 witness: a form that holds only type_inscription after a form-data
\* update, for which get_missing_fields answers with nom_naissance as the
\* next field.
C14_Witness ==
    \E sid \in DOMAIN student_profiles :
        /\ OnlyTypeInscription(FormOf(sid))
        /\ ProfileOf(sid).current_step = "etat_civil"
        /\ get_missing_fields(sid).reply.status = 200
        /\ get_missing_fields(sid).reply.body.next_field = "nom_naissance"

\* A name that form_data does not hold or maps to an empty or falsy value:
\* the empty string, false, 0 or null.
AbsentOrFalsy(form_data, name) ==
    \/ name \notin DOMAIN form_data
    \/ form_data[name] \in {"", PyFalse, PyZero, PyNone}

\* The required fields of a catalog section: its field for a single-field
\* section, the fields marked required for a multi-field one.
RequiredFieldsOf(section) ==
    {section.fields[i].name :
        i \in {j \in DOMAIN section.fields :
                  section.single \/ section.fields[j].required}}

\* The position of a field name in a catalog section.
FieldIndex(section, name) ==
    CHOOSE i \in DOMAIN section.fields : section.fields[i].name = name

\* C15: for every form, get_missing_sections lists in ascending section
\* number exactly the required sections with a required field that is absent
\* or falsy, each with exactly those fields in catalog order; and
\* is_form_complete is true iff every name of get_all_required_fields maps
\* to a value that is not falsy.
C15_MissingSectionsExact ==
    \A sid \in DOMAIN student_profiles :
        LET form_data == FormOf(sid)
            missing == get_missing_sections(form_data)
            names == get_all_required_fields(PyNone)
        IN  /\ \A i, j \in DOMAIN missing :
                   i < j => missing[i].number < missing[j].number
            /\ {missing[i].number : i \in DOMAIN missing} =
                   {FORM_SECTIONS[n].number :
                       n \in {m \in DOMAIN FORM_SECTIONS :
                                 /\ FORM_SECTIONS[m].required
                                 /\ \E name \in RequiredFieldsOf(FORM_SECTIONS[m]) :
                                        AbsentOrFalsy(form_data, name)}}
            /\ \A i \in DOMAIN missing :
                   LET section == FORM_SECTIONS[missing[i].number]
                       fields == missing[i].missing_fields
                   IN  /\ section.number = missing[i].number
                       /\ Range(fields) =
                              {name \in RequiredFieldsOf(section) :
                                  AbsentOrFalsy(form_data, name)}
                       /\ \A a, b \in DOMAIN fields :
                              a < b => FieldIndex(section, fields[a])
                                           < FieldIndex(section, fields[b])
            /\ is_form_complete(form_data)
                   <=> \A k \in DOMAIN names : ~AbsentOrFalsy(form_data, names[k])

\* C15 witness: after a form-data update, a form with every required field
\* filled but type_inscription, which is 0, and nom_naissance, which is the
\* empty string; sections 1 and 2 are listed.
C15_Witness ==
    \E sid \in DOMAIN student_profiles :
        /\ ProfileOf(sid).current_step = "etat_civil"
        /\ "type_inscription" \in DOMAIN FormOf(sid)
        /\ FormOf(sid)["type_inscription"] = PyZero
        /\ "nom_naissance" \in DOMAIN FormOf(sid)
        /\ FormOf(sid)["nom_naissance"] = ""
        /\ MissingNumbers(FormOf(sid)) = <<1, 2>>
        /\ ~is_form_complete(FormOf(sid))

\* C16: the completeness check reads the form only: whatever enrollment kind
\* the profile is given, the missing fields of get_missing_fields and the
\* verdict of check_missing_sections_wrapper are the same, and
\* get_all_required_fields gives the same names for every kind and for None.
C16_CompletenessIgnoresKind ==
    \A sid \in DOMAIN student_profiles :
        \A kind \in {PyNone} \cup DeclaredKinds :
            LET p == ProfileOf(sid)
                q == [p EXCEPT !.inscription_type = kind]
            IN  /\ MissingFieldsOf(q) = MissingFieldsOf(p)
                /\ check_missing_sections_wrapper(q)
                       <=> check_missing_sections_wrapper(p)
                /\ get_all_required_fields(kind) = get_all_required_fields(PyNone)

\* C16 witness: a re-enrollment profile whose form is complete and holds no
\* numero_etudiant, the field whose condition is "Réinscription uniquement".
C16_Witness ==
    \E sid \in DOMAIN student_profiles :
        /\ ProfileOf(sid).inscription_type = "lap"
        /\ "numero_etudiant" \notin DOMAIN FormOf(sid)
        /\ is_form_complete(FormOf(sid))
        /\ get_missing_fields(sid).reply.status = 200
        /\ get_missing_fields(sid).reply.body.total_missing = 0

\* C17: a form-data update run a second time with the same request, on the
\* table the first run left (load, update, save), leaves that table as it
\* is: the stored form_data is the one the first run stored.
C17_FormUpdateIdempotent ==
    \A sid \in DOMAIN student_profiles :
        \A form_data \in WideFormDatas, current_step \in StepValues :
            LET first == update_form_data(sid, form_data, current_step)
                reloaded == db_to_profile(first.table[sid])
                again == FormUpdatedProfile(reloaded, form_data, current_step)
                second == save_profile(first.table, sid, again)
            IN  first.reply.status = 200
                    => /\ reloaded.phase = RemplissageFormulaire
                       /\ second.result
                       /\ second.table[sid].form_data = first.table[sid].form_data
                       /\ second.table = first.table

\* C17 witness: a form that took nom_naissance from a form-data update.
C17_Witness ==
    \E sid \in DOMAIN student_profiles :
        /\ ProfileOf(sid).current_step = "etat_civil"
        /\ DOMAIN FormOf(sid) = {"nom_naissance"}
        /\ FormOf(sid)["nom_naissance"] = "DUPONT"
        /\ update_form_data(sid, FormOf(sid), Absent).table = student_profiles

\* C18: a form-data update in remplissage_formulaire merges: every key of
\* the stored form is a key after it, a key the request does not name keeps
\* its value, and a key the request names holds the value of the request.
C18_FormUpdateMerges ==
    \A sid \in DOMAIN student_profiles :
        \A form_data \in WideFormDatas, current_step \in StepValues :
            LET before == FormOf(sid)
                result == update_form_data(sid, form_data, current_step)
                after == result.table[sid].form_data
            IN  ProfileOf(sid).phase = RemplissageFormulaire
                    => /\ result.reply.status = 200
                       /\ DOMAIN before \subseteq DOMAIN after
                       /\ DOMAIN after = DOMAIN before \cup DOMAIN form_data
                       /\ \A k \in DOMAIN before \ DOMAIN form_data :
                              after[k] = before[k]
                       /\ \A k \in DOMAIN form_data : after[k] = form_data[k]
                       /\ result.reply.body.profile.form_data = after

\* C18 witness: after form-data updates, a form of three keys in which
\* nom_naissance was overwritten with the empty string and the two others
\* hold different values.
C18_Witness ==
    \E sid \in DOMAIN student_profiles :
        /\ ProfileOf(sid).current_step = "etat_civil"
        /\ DOMAIN FormOf(sid) = {"type_inscription", "nom_naissance", "nom_usuel"}
        /\ FormOf(sid)["type_inscription"] = "1ère Inscription"
        /\ FormOf(sid)["nom_usuel"] = "DUPONT"
        /\ FormOf(sid)["nom_naissance"] = ""

\* C19: after a form-data update the stored and the returned form_completed
\* flag is True exactly when is_form_complete holds of the stored form.
C19_FormCompletedFollowsForm ==
    \A sid \in DOMAIN student_profiles :
        \A form_data \in WideFormDatas, current_step \in StepValues :
            LET result == update_form_data(sid, form_data, current_step)
                row == result.table[sid]
            IN  result.reply.status = 200
                    => /\ row.form_completed = PyTrue
                              <=> is_form_complete(row.form_data)
                       /\ result.reply.body.profile.form_completed = PyTrue
                              <=> is_form_complete(row.form_data)

\* The type_inscription entry start_phase2 derives from the enrollment kind.
TypeInscriptionOf(kind) ==
    IF kind = "premiere_inscription" THEN "1ère Inscription" ELSE "Réinscription"

\* C20: every step that takes a stored profile from collecte_info to
\* remplissage_formulaire leaves its form_data with the type_inscription
\* entry of its enrollment kind: "1ère Inscription" for premiere_inscription,
\* "Réinscription" for a re-enrollment kind.
C20_AdvanceBackfillsTypeInscription ==
    [][\A sid \in DOMAIN student_profiles :
           (/\ sid \in DOMAIN student_profiles'
            /\ student_profiles[sid].phase = CollecteInfo
            /\ student_profiles'[sid].phase = RemplissageFormulaire)
               => /\ "type_inscription" \in DOMAIN student_profiles'[sid].form_data
                  /\ student_profiles'[sid].form_data["type_inscription"] =
                         TypeInscriptionOf(student_profiles'[sid].inscription_type)]_vars

\* The subsequence of the names of get_all_required_fields that the form does
\* not hold or maps to a falsy value.
StillMissing(form_data) ==
    SelectSeq(get_all_required_fields(PyNone),
              LAMBDA name : AbsentOrFalsy(form_data, name))

\* C21: on a profile in remplissage_formulaire get_missing_fields answers 200
\* with the required field names still missing, in section and catalog
\* order, next_field the first of them or None exactly when there is none,
\* and total_missing their number; the tables are left as they are.
C21_MissingFieldsReply ==
    \A sid \in DOMAIN student_profiles :
        ProfileOf(sid).phase = RemplissageFormulaire
            => LET result == get_missing_fields(sid)
                   body == result.reply.body
               IN  /\ result.reply.status = 200
                   /\ body.missing_fields = StillMissing(FormOf(sid))
                   /\ body.total_missing = Len(body.missing_fields)
                   /\ body.missing_fields # <<>>
                          => body.next_field = body.missing_fields[1]
                   /\ body.next_field = PyNone <=> body.missing_fields = <<>>
                   /\ result.table = student_profiles

\* C21 witness: after a form-data update, a form with every required field
\* filled but nom_naissance, which is 0: the query answers with that one name.
C21_Witness ==
    \E sid \in DOMAIN student_profiles :
        /\ ProfileOf(sid).current_step = "etat_civil"
        /\ "nom_naissance" \in DOMAIN FormOf(sid)
        /\ FormOf(sid)["nom_naissance"] = PyZero
        /\ get_missing_fields(sid).reply.body.missing_fields = <<"nom_naissance">>
        /\ get_missing_fields(sid).reply.body.next_field = "nom_naissance"
        /\ get_missing_fields(sid).reply.body.total_missing = 1

\* C22: an export of a profile with no required document is answered 400 for
\* every format, and an export in a format other than csv or email is
\* answered 400; neither changes the tables.
C22_ExportRefusals ==
    \A sid \in DOMAIN student_profiles :
        \A format \in ExportFormats :
            LET result == export_documents(sid, format)
                normalized == IF format = "" THEN "csv" ELSE StripLower(format)
            IN  /\ ProfileOf(sid).required_documents = <<>>
                       => /\ result.reply.status = 400
                          /\ result.table = student_profiles
                /\ normalized \notin {"csv", "email"}
                       => /\ result.reply.status = 400
                          /\ result.table = student_profiles
                /\ (result.reply.status = 200)
                       <=> (/\ ProfileOf(sid).required_documents # <<>>
                            /\ normalized \in {"csv", "email"})

\* C22 witness: a profile with documents for which the export in format pdf
\* is refused and the export in format " CSV " is rendered.
C22_Witness ==
    \E sid \in DOMAIN student_profiles :
        /\ ProfileOf(sid).required_documents # <<>>
        /\ export_documents(sid, "pdf").reply.status = 400
        /\ export_documents(sid, " CSV ").reply.status = 200

\* C23: every session-scoped handler called with an unknown session id
\* answers 404 and leaves the tables as they are, and save-profile called
\* for a known session and an unknown account answers 404, a status no other
\* failure of the handler has, and leaves the tables as they are.
C23_NotFoundDistinctAndInert ==
    /\ \A result \in {get_profile(UnknownSessionId),
                       update_profile(UnknownSessionId, <<>>),
                       start_phase2(UnknownSessionId),
                       update_form_data(UnknownSessionId, <<>>, Absent),
                       get_missing_fields(UnknownSessionId),
                       export_documents(UnknownSessionId, "csv"),
                       save_profile_to_account(UnknownEmail, UnknownSessionId,
                                               NoProfileData)} :
           /\ result.reply.status = 404
           /\ result.table = student_profiles
    /\ \A sid \in DOMAIN student_profiles, email \in RequestEmails,
          profile_data \in ProfileDatas :
           email \notin AccountEmails(user_accounts)
               => LET result == save_profile_to_account(email, sid, profile_data)
                  IN  /\ result.reply.status = 404
                      /\ result.table = student_profiles

\* C25: a fact update, a phase advance or a form-data update whose
\* save_profile returns False is not answered 200.
C25_FailedSaveIsReported ==
    \A sid \in DOMAIN student_profiles :
        LET loaded == ProfileOf(sid)
        IN  /\ \A data \in FactUpdates :
                   ~save_profile(student_profiles, sid,
                                 UpdatedProfile(loaded, data)).result
                       => update_profile(sid, data).reply.status # 200
            /\ ~Phase2Refused(loaded)
                   => (~save_profile(student_profiles, sid,
                                     Phase2Profile(loaded)).result
                           => start_phase2(sid).reply.status # 200)
            /\ \A form_data \in FormDatas, current_step \in StepValues :
                   loaded.phase = RemplissageFormulaire
                       => (~save_profile(student_profiles, sid,
                                         FormUpdatedProfile(loaded, form_data,
                                                            current_step)).result
                               => update_form_data(sid, form_data, current_step)
                                      .reply.status # 200)

\* C26: a save-profile request that is not answered 200 leaves the stored
\* profiles as they were: nothing of its profile_data is stored and no row is
\* linked to an account.
C26_FailedAttachChangesNothing ==
    \A sid \in DOMAIN student_profiles, email \in RequestEmails,
       profile_data \in ProfileDatas :
        LET result == save_profile_to_account(email, sid, profile_data)
        IN  result.reply.status # 200 => result.table = student_profiles

\* A fact-update request that carries, for one of the four boolean facts, a
\* value that is neither a boolean nor null.
Malformed(data) ==
    \E f \in BoolFactNames \cap DOMAIN data :
        data[f] \notin {PyNone, PyTrue, PyFalse}

\* C27: a fact update that carries a malformed value is answered with a
\* validation failure (400 or 422) and leaves the stored profile as it was.
C27_MalformedFactRejected ==
    \A sid \in DOMAIN student_profiles, data \in FactUpdates :
        Malformed(data)
            => LET result == update_profile(sid, data)
               IN  /\ result.reply.status \in {400, 422}
                   /\ result.table = student_profiles

\* The stored profiles attached to the account of an email.
AttachedProfiles(email) ==
    {sid \in DOMAIN student_profiles : student_profiles[sid].account_id = email}

\* C24: creating an account with an email that already has one is refused
\* with the error that names the conflict and leaves the accounts table (the
\* existing credential included) as it was; the table never holds two rows
\* with the same email.
C24_DuplicateAccountRefused ==
    /\ \A email \in AccountEmails(user_accounts), password \in WidePasswords :
           LET result == create_account(email, password)
           IN  /\ result.reply = Reply(400, CompteExiste)
               /\ result.reply.body # EmailRequis
               /\ result.accounts = user_accounts
    /\ \A i, j \in DOMAIN user_accounts :
           user_accounts[i].email = user_accounts[j].email => i = j

\* An account created with a password holds an attached profile, a second
\* account exists, and a create request for the first email without a password
\* is refused.
C24_Witness ==
    \E i \in DOMAIN user_accounts :
        /\ user_accounts[i].password_hash = hash_password("secret")
        /\ AttachedProfiles(user_accounts[i].email) # {}
        /\ Len(user_accounts) = 2
        /\ create_account(user_accounts[i].email, PyNone).reply.status = 400

\* The field names the catalog defines: those get_section_by_field finds.
CatalogFieldNames ==
    UNION {{FORM_SECTIONS[i].fields[j].name : j \in DOMAIN FORM_SECTIONS[i].fields} :
              i \in DOMAIN FORM_SECTIONS}

\* C28: every key of a stored form_data is a field name of the catalog.
C28_FormKeysAreCatalogFields ==
    \A sid \in DOMAIN student_profiles :
        DOMAIN student_profiles[sid].form_data \subseteq CatalogFieldNames

\* C29: the step that creates a session stores for it a row with phase
\* collecte_info, the five facts unset, no required document, an empty form
\* and form_completed false, and start_profile answers 200 with the session
\* id and that phase.
C29_SessionCreated ==
    [][\A sid \in SessionIds :
           (sid \notin DOMAIN student_profiles /\ sid \in DOMAIN student_profiles')
               => /\ student_profiles'[sid].phase = CollecteInfo
                  /\ \A f \in FactNames : student_profiles'[sid][f] = PyNone
                  /\ student_profiles'[sid].required_documents = <<>>
                  /\ student_profiles'[sid].form_data = <<>>
                  /\ student_profiles'[sid].form_completed = PyFalse
                  /\ start_profile(sid).table = student_profiles'
                  /\ start_profile(sid).reply =
                         Reply(200, [session_id |-> sid, phase |-> CollecteInfo])]_vars

\* The session was created and nothing has been written to it since.
C29_Witness ==
    /\ "s1" \in DOMAIN student_profiles
    /\ student_profiles["s1"].phase = CollecteInfo
    /\ \A f \in FactNames : student_profiles["s1"][f] = PyNone
    /\ student_profiles["s1"].required_documents = <<>>
    /\ student_profiles["s1"].form_data = <<>>
    /\ student_profiles["s1"].current_step = "start"

\* The part of the table that belongs to session sid.
Only(table, sid) == [x \in DOMAIN table \cap {sid} |-> table[x]]

\* A step of session sid run alone: from its own record and its own waiting
\* requests, one of its operations gives the record and the waiting requests
\* of the next state.
AloneStep(sid) ==
    LET table == Only(student_profiles, sid)
        flight == OwnFlight(in_flight, sid)
        table2 == Only(student_profiles', sid)
        flight2 == OwnFlight(in_flight', sid)
    IN  \/ /\ sid \notin DOMAIN table
           /\ table2 = Put(<<>>, sid, NewRow(PyNone))
           /\ flight2 = flight
        \/ \E op \in {"update", "form-data"} :
               /\ CanBegin(table, flight, sid, op)
               /\ table2 = table
               /\ flight2 = flight (+) SetToBag({Pending(table, sid, op)})
        \/ \E r \in BagToSet(flight) :
               \E body \in Bodies(r.op) :
                   /\ table2 = Completed(table, r, body)
                   /\ flight2 = flight (-) SetToBag({r})
        \/ /\ sid \in DOMAIN table
           /\ ~Phase2Refused(db_to_profile(table[sid]))
           /\ table2 = save_profile(table, sid,
                                    Phase2Profile(db_to_profile(table[sid]))).table
           /\ flight2 = flight

\* C30: with two sessions interleaved, every step that touches the record or
\* the waiting requests of one session leaves those of the other as they
\* were, and what it makes of the session's record is what the same operation
\* makes of that record with the other session absent.
C30_SessionsIndependent ==
    [][\A sid \in TwoSessionIds :
           (\/ Only(student_profiles', sid) # Only(student_profiles, sid)
            \/ OwnFlight(in_flight', sid) # OwnFlight(in_flight, sid))
               => /\ AloneStep(sid)
                  /\ \A other \in TwoSessionIds \ {sid} :
                         /\ Only(student_profiles', other) =
                                Only(student_profiles, other)
                         /\ OwnFlight(in_flight', other) =
                                OwnFlight(in_flight, other)]_vars

\* Both sessions are stored with different records, one in phase 2 with a
\* form entry and one still collecting facts, and each has a request waiting
\* for its body.
C30_Witness ==
    /\ DOMAIN student_profiles = TwoSessionIds
    /\ student_profiles["s1"].phase = RemplissageFormulaire
    /\ "nom_naissance" \in DOMAIN student_profiles["s1"].form_data
    /\ student_profiles["s2"].phase = CollecteInfo
    /\ student_profiles["s2"].is_boursier = PyTrue
    /\ \A sid \in TwoSessionIds : OwnFlight(in_flight, sid) # EmptyBag

\* The rules of the cascade in their order: whether rule i matches a field.
\* Rule 5 matches when the hint mentions a count of characters or digits.
RuleMatches(i, field_data) ==
    LET hint == Lower(DictGet(field_data, "format", <<>>))
        declared == DictGet(field_data, "type", "text")
    IN  CASE i = 1 -> \/ declared = "choice"
                      \/ Mentions(hint, "choisir")
                      \/ "options" \in DOMAIN field_data
          [] i = 2 -> declared = "checkbox"
          [] i = 3 -> Mentions(hint, "jj/mm/aaaa") \/ Mentions(hint, "date")
          [] i = 4 -> Mentions(hint, "année") \/ Mentions(hint, "annee")
          [] i = 5 -> Mentions(hint, "caractères") \/ Mentions(hint, "chiffres")
          [] i = 6 -> Mentions(hint, "code") /\ Mentions(hint, "annexe")
          [] i = 7 -> Mentions(hint, "adresse") /\ Mentions(hint, "complète")
          [] i = 8 -> Mentions(hint, "majuscules") \/ Mentions(hint, "uppercase")
          [] OTHER -> TRUE

\* The integers of a hint, by position.
HintIntegers(hint) == {i \in DOMAIN hint : hint[i] \in {"8", "0"}}

\* numeric(N) with N the first integer of the hint, numeric without a length
\* when the hint holds none.
NumericOf(hint) ==
    IF HintIntegers(hint) = {} THEN <<"numeric">>
    ELSE LET first == CHOOSE i \in HintIntegers(hint) :
                          \A j \in HintIntegers(hint) : i <= j
         IN  <<"numeric", IF hint[first] = "8" THEN 8 ELSE 0>>

\* The type rule i gives.
RuleType(i, field_data) ==
    CASE i = 1 -> <<"choice">>
      [] i = 2 -> <<"checkbox">>
      [] i = 3 -> <<"date">>
      [] i = 4 -> <<"year">>
      [] i = 5 -> NumericOf(DictGet(field_data, "format", <<>>))
      [] i = 6 -> <<"code_annexe">>
      [] i = 7 -> <<"address">>
      [] i = 8 -> <<"text_uppercase">>
      [] OTHER -> <<"text">>

\* The first rule that matches a field.
FirstRule(field_data) ==
    CHOOSE i \in 1..9 :
        /\ RuleMatches(i, field_data)
        /\ \A j \in 1..(i - 1) : ~RuleMatches(j, field_data)

\* C31: the type stored for a field is the type of the first rule of the
\* cascade choice, checkbox, date, year, numeric(N), coded reference,
\* address, uppercase text, text that matches it; no later rule decides for
\* a field an earlier rule matches.
C31_FirstRuleWins ==
    \A name \in DOMAIN FIELD_DETECTION :
        LET field_data == FIELD_DETECTION[name].field_data
        IN  FIELD_DETECTION[name].type = RuleType(FirstRule(field_data), field_data)

\* C32: a field that none of the rules choice, checkbox, date and year
\* matches and whose hint mentions a count of characters or digits is typed
\* numeric(N) with N the first integer of the hint, and numeric without a
\* length when the hint holds no integer.
C32_CountHintIsNumeric ==
    \A name \in DOMAIN FIELD_DETECTION :
        LET field_data == FIELD_DETECTION[name].field_data
        IN  (/\ \A i \in 1..4 : ~RuleMatches(i, field_data)
             /\ RuleMatches(5, field_data))
                => FIELD_DETECTION[name].type =
                       NumericOf(DictGet(field_data, "format", <<>>))

\* C33: start_phase2 on a profile whose form already holds type_inscription
\* leaves the whole form, that value included, as it was; on a form without
\* the key it adds that key alone; and a second start_phase2, run on the
\* table the first left, stores the same form_data.
C33_BackfillNeverOverwrites ==
    \A sid \in DOMAIN student_profiles :
        LET before == FormOf(sid)
            first == start_phase2(sid)
            reloaded == db_to_profile(first.table[sid])
            second == save_profile(first.table, sid, Phase2Profile(reloaded))
        IN  /\ first.reply.status = 200
            /\ "type_inscription" \in DOMAIN before
                   => first.table[sid].form_data = before
            /\ "type_inscription" \notin DOMAIN before
                   => /\ DOMAIN first.table[sid].form_data =
                             DOMAIN before \cup {"type_inscription"}
                      /\ \A k \in DOMAIN before :
                             first.table[sid].form_data[k] = before[k]
            /\ ~Phase2Refused(reloaded)
            /\ second.result
            /\ second.table[sid].form_data = first.table[sid].form_data

\* A re-enrollment profile whose form holds "1ère Inscription", a value the
\* backfill would not write for it, and that start_phase2 accepts.
C33_Witness ==
    \E sid \in DOMAIN student_profiles :
        /\ ProfileOf(sid).inscription_type = "lap"
        /\ "type_inscription" \in DOMAIN FormOf(sid)
        /\ FormOf(sid)["type_inscription"] = "1ère Inscription"
        /\ start_phase2(sid).reply.status = 200

\* C34: a stored profile in remplissage_formulaire has its five facts set.
C34_Phase2HasAllFacts ==
    \A sid \in DOMAIN student_profiles :
        student_profiles[sid].phase = RemplissageFormulaire
            => \A f \in FactNames : student_profiles[sid][f] # PyNone

\* C35: a stored profile in collecte_info has an empty form_data, and for
\* such a profile the form-data update and the missing-fields query are
\* refused with an error and leave the table as it was.
C35_NoFormBeforeAdvance ==
    \A sid \in DOMAIN student_profiles :
        student_profiles[sid].phase = CollecteInfo
            => /\ student_profiles[sid].form_data = <<>>
               /\ get_missing_fields(sid).reply.status = 400
               /\ get_missing_fields(sid).table = student_profiles
               /\ \A form_data \in FormDatas, current_step \in StepValues :
                      LET result == update_form_data(sid, form_data, current_step)
                      IN  /\ result.reply.status = 400
                          /\ result.table = student_profiles

\* C36: a fact update on a profile in collecte_info that leaves the five
\* facts set stores it in remplissage_formulaire and answers with that
\* phase; a fact update that leaves a fact unset stores the phase the
\* profile had.
C36_UpdateAdvancesWhenComplete ==
    \A sid \in DOMAIN student_profiles, data \in FactUpdates :
        LET before == ProfileOf(sid)
            assigned == AssignFacts(before, data)
            result == update_profile(sid, data)
        IN  /\ (AllFactsSet(assigned) /\ before.phase = CollecteInfo)
                   => /\ result.table[sid].phase = RemplissageFormulaire
                      /\ result.reply.body.profile.phase = RemplissageFormulaire
            /\ ~AllFactsSet(assigned)
                   => result.table[sid].phase = before.phase

\* C37: start_phase2 on a stored profile that is in remplissage_formulaire
\* leaves its phase, its current_step and its form_data as they were.
C37_RepeatedAdvanceKeepsProgress ==
    \A sid \in DOMAIN student_profiles :
        student_profiles[sid].phase = RemplissageFormulaire
            => LET after == start_phase2(sid).table[sid]
               IN  /\ after.phase = student_profiles[sid].phase
                   /\ after.current_step = student_profiles[sid].current_step
                   /\ after.form_data = student_profiles[sid].form_data

\* C38: a login for an email without an account fails; a login to an
\* account that has a password_hash succeeds exactly when the request
\* carries the password of that hash, a request without a password or with
\* an empty one failing; a login to an account without a password_hash
\* succeeds with any password.
C38_LoginChecksCredential ==
    \A email \in WideEmails \cup {UnknownEmail}, password \in LoginPasswords :
        LET ok == login(email, password).status = 200
            rows == {i \in DOMAIN user_accounts : user_accounts[i].email = email}
        IN  /\ rows = {} => ~ok
            /\ \A i \in rows :
                   IF user_accounts[i].password_hash = <<>>
                   THEN ok
                   ELSE ok <=> /\ password \notin {PyNone, ""}
                               /\ hash_password(password) =
                                      user_accounts[i].password_hash

\* The writes of the stored row that a completing request keeps: every form
\* key and every fact its body does not name holds, in the row it saves, the
\* value the stored row holds.
KeepsStoredWrites(r, body) ==
    LET before == student_profiles[r.session_id]
        after == Completed(student_profiles, r, body)[r.session_id]
    IN  IF r.op = "update"
        THEN /\ \A f \in FactNames \ DOMAIN body : after[f] = before[f]
             /\ after.form_data = before.form_data
        ELSE /\ \A k \in DOMAIN before.form_data \ DOMAIN body :
                    /\ k \in DOMAIN after.form_data
                    /\ after.form_data[k] = before.form_data[k]
             /\ \A f \in FactNames : after[f] = before[f]

\* C39, as claimed: whatever a waiting request of the session loaded and
\* whatever was saved since, its completion keeps the writes the stored
\* profile holds: no write is lost to its save.
C39_NoWriteLost ==
    \A r \in BagToSet(in_flight) :
        \A body \in Bodies(r.op) : KeepsStoredWrites(r, body)

\* C39, amended: a waiting request whose loaded profile is the stored one,
\* no other request of the session having saved since its load, keeps every
\* stored write when it completes.
C39_SerialWritesKept ==
    \A r \in BagToSet(in_flight) :
        r.profile = db_to_profile(student_profiles[r.session_id])
            => \A body \in Bodies(r.op) : KeepsStoredWrites(r, body)

\* Two requests of the session wait, one on the stored profile and one on a
\* profile loaded before the stored is_boursier was written.
C39_Witness ==
    /\ "s1" \in DOMAIN student_profiles
    /\ student_profiles["s1"].is_boursier = PyTrue
    /\ \E r \in BagToSet(in_flight) :
           r.profile = db_to_profile(student_profiles["s1"])
    /\ \E r \in BagToSet(in_flight) : r.profile.is_boursier = PyNone

\* C40: for a profile whose enrollment kind is set to a value the
\* calculation does not branch on, is_phase1_complete counts the kind as set
\* (it is true exactly when the four other facts are set), and the list is
\* the four baseline documents followed by the CROUS attestation when
\* is_boursier is true and the payment slip when inscrit_autre_etablissement
\* is true, with no kind-specific document and no JDC attestation: the list
\* the same facts give with the kind unset.
C40_UnhandledKindBaselineOnly ==
    \A sid \in DOMAIN student_profiles :
        LET p == ProfileOf(sid)
            documents == calculate_required_documents(p).result
            unset == [p EXCEPT !.inscription_type = PyNone]
        IN  (p.inscription_type # PyNone /\ p.inscription_type \notin HandledKinds)
                => /\ is_phase1_complete(p)
                          <=> \A f \in BoolFactNames : p[f] # PyNone
                   /\ documents =
                          CommonDocuments
                          \o AppendIf(p.is_boursier = PyTrue, <<DocCROUS>>)
                          \o AppendIf(p.inscrit_autre_etablissement = PyTrue,
                                      <<DocBulletinVersement>>)
                   /\ Range(documents) \cap KindSpecificDocs = {}
                   /\ documents = calculate_required_documents(unset).result
                   /\ p.required_documents \in {<<>>, documents}

\* A profile of kind reinscription, minor and without JDC certificate, with
\* the five facts set, whose calculated list is the four baseline documents
\* and which move_to_phase2 advanced.
C40_Witness ==
    \E sid \in DOMAIN student_profiles :
        LET p == ProfileOf(sid)
        IN  /\ p.inscription_type = "reinscription"
            /\ p.is_mineur = PyTrue
            /\ p.has_jdc = PyFalse
            /\ p.is_boursier = PyFalse
            /\ p.inscrit_autre_etablissement = PyFalse
            /\ p.required_documents = CommonDocuments
            /\ p.phase = RemplissageFormulaire

====
